---- MODULE Spec2Model ----
(***************************************************************************)
(* A model of tweet-dna: the extension importer, the SQLite repository     *)
(* (tweets, persona_versions, generations), the profiler, the thread       *)
(* generator and the deterministic suppression-risk check.                 *)
(*                                                                         *)
(* Encoding of Python values.  Python's None is the string None below; it  *)
(* is distinct from every JSON string the bounded input sets contain.  A   *)
(* dict is a function whose DOMAIN is its key set; Get is dict.get.        *)
(***************************************************************************)
EXTENDS Integers, Sequences, FiniteSets, TLC

VARIABLES
    tweets,            \* rows of table tweets (a set: tweet_id is its key)
    persona_versions,  \* rows of table persona_versions, in version order
    generations,       \* rows of table generations, in insertion order
    reviews,           \* rows of table reviews, in insertion order
    returned,          \* the versions save_persona has returned, in call order
    llm_calls,         \* number of provider.generate_json calls made so far
    file,              \* the export file under import (SpecReimport)
    connections,       \* the sqlite connections opened so far, in order
    state,             \* api/main.py: the application state (None or AppState)
    pending,           \* per connection, the rows inserted and not committed
    invocations,       \* per import running step by step, where it stands
    prev,              \* the call before the last one
    last               \* the last call: its operation, arguments and result

vars == <<tweets, persona_versions, returned, generations, reviews, llm_calls,
         file, connections, state, pending, invocations, prev, last>>

----------------------------------------------------------------------------
\* Bounds of the model.

MaxBatchLen == 2    \* records in one batch, where calls follow one another
MaxFileLen == 3     \* records in one export file, or in a batch imported once
MaxTweets == 4      \* rows of the tweets table the sampler reads
MaxVersions == 3    \* rows the persona_versions table may hold
MaxSample == 3      \* largest sample_size asked of the sampler
MaxDrafts == 2      \* rows the generations table may hold
MaxThread == 8      \* items in a provider's thread response
MaxCalls == 3       \* generate_json calls in one behaviour
MaxProfiled == 2    \* rows of the tweets table when a profile is built
MaxTokens == 3      \* tokens of a text handed to check_suppression_risk
MaxReviews == 3     \* rows the reviews table may hold

----------------------------------------------------------------------------
\* Python values.

None == "<None>"

Truthy(v) == v # None /\ v # ""

Get(obj, key) == IF key \in DOMAIN obj THEN obj[key] ELSE None

\* Python's `a or b`.
Or(a, b) == IF Truthy(a) THEN a ELSE b

\* str() on the identifiers of the bounded input sets: "#7" is the JSON
\* number 7, every other identifier is a string already.
PyStr(v) == IF v = "#7" THEN "7" ELSE v

\* str.strip() on the body texts of the bounded input set.
Strip(s) ==
    CASE s = "beta " -> "beta"
      [] s = "  " -> ""
      [] OTHER -> s

\* A Python value that is not a dict: a list, a str.  No dict of the bounded
\* input sets has the key pytype.
NotADict(pytype) == [pytype |-> pytype]

IsDict(v) == "pytype" \notin DOMAIN v

NoCall == [op |-> "none"]

\* api/main.py `state: Optional[AppState] = None`
NoAppState == [none |-> TRUE]

SeqsUpTo(S, n) == UNION {[1..k -> S] : k \in 0..n}

\* The sqlite connections that write to the database file side by side, and
\* the state of a store no connection has written to.
Connections == {1, 2}
NoPending == [c \in Connections |-> {}]
NoInvocations == [c \in Connections |-> [pc |-> "none"]]

----------------------------------------------------------------------------
\* importer/extension.py

T1 == "2024-01-01T00:00:00Z"
T2 == "2024-06-01T00:00:00Z"

\* The objects an export may hold: canonical and alias field names, a
\* whitespace-only body, a missing identifier.
RawObjs ==
    { [tweet_id |-> "1", created_at |-> T1, text |-> "alpha", url |-> "u1"],
      [id_str |-> "1", createdAt |-> T2, full_text |-> "beta "],
      [id |-> "2", timestamp |-> T2, content |-> "gamma", link |-> "u2"],
      [tweet_id |-> "3", created_at |-> T1, text |-> "  "] }

Files == SeqsUpTo(RawObjs, MaxFileLen)

normalize_tweet_canonical_names(obj) ==
    [tweet_id |-> IF Truthy(Get(obj, "tweet_id")) THEN PyStr(Get(obj, "tweet_id")) ELSE None,
     created_at |-> Get(obj, "created_at"),
     text |-> IF Truthy(Get(obj, "text")) THEN Strip(Get(obj, "text")) ELSE None,
     url |-> Get(obj, "url")]

\* _normalize_tweet: the identifier, the timestamp, the body and the url.
normalize_tweet(obj) ==
    LET tweet_id == Or(Or(Or(Get(obj, "tweet_id"), Get(obj, "id")),
                          Get(obj, "id_str")), Get(obj, "tweetId"))
        created_at == Or(Or(Or(Get(obj, "created_at"), Get(obj, "createdAt")),
                            Get(obj, "timestamp")), Get(obj, "date"))
        text == Or(Or(Or(Get(obj, "text"), Get(obj, "full_text")),
                      Get(obj, "content")), "")
        url == Or(Or(Or(Get(obj, "url"), Get(obj, "tweet_url")),
                     Get(obj, "link")), Get(obj, "permalink"))
    IN [tweet_id |-> IF Truthy(tweet_id) THEN PyStr(tweet_id) ELSE None,
        created_at |-> created_at,
        text |-> IF Truthy(text) THEN Strip(text) ELSE None,
        url |-> url]

\* _read_jsonl / _read_json on a well-formed file: every object normalized,
\* in file order.
ReadFile(f) == [i \in 1..Len(f) |-> normalize_tweet(f[i])]

----------------------------------------------------------------------------
\* storage/repository.py: tweets

\* SELECT 1 FROM tweets WHERE tweet_id = ?
Exists(rows, tweet_id) == \E r \in rows : r.tweet_id = tweet_id

\* The columns of an inserted row (source, lang, metrics_json and raw_json
\* are functions of the same input and are left out).
Row(t) == [tweet_id |-> t.tweet_id, created_at |-> t.created_at,
           text |-> t.text, url |-> Get(t, "url")]

\* The validation of import_extension_tweets_batch.
InvalidNoTimestamp(t) ==
    \/ ~Truthy(Get(t, "tweet_id"))
    \/ ~Truthy(Get(t, "text"))

Invalid(t) ==
    \/ ~Truthy(Get(t, "tweet_id"))
    \/ ~Truthy(Get(t, "created_at"))
    \/ ~Truthy(Get(t, "text"))

\* A value sqlite3 cannot bind to a parameter: a JSON object or array where
\* the column takes a scalar.
Unbindable == {"<dict>", "<list>"}

InsertUnconstrained(rows, row) == [ok |-> TRUE, rows |-> rows \cup {row}]

\* INSERT INTO tweets under the constraints of the schema: tweet_id is the
\* PRIMARY KEY, created_at and text are NOT NULL.  ok = FALSE is
\* sqlite3.IntegrityError, or the error of a parameter that cannot be bound.
Insert(rows, row) ==
    IF \/ Exists(rows, row.tweet_id) \/ row.created_at = None \/ row.text = None
       \/ {row.created_at, row.text, row.url} \cap Unbindable # {}
    THEN [ok |-> FALSE, rows |-> rows]
    ELSE [ok |-> TRUE, rows |-> rows \cup {row}]

Replace(rows, t) == {r \in rows : r.tweet_id # t.tweet_id} \cup {Row(t)}

InsertInto(acc, t) ==
    LET ins == Insert(acc.rows, Row(t))
    IN IF ins.ok
       THEN [acc EXCEPT !.rows = ins.rows, !.imported = @ + 1]
       ELSE [acc EXCEPT !.raised = TRUE]

BatchStepOverwrite(rows, acc, t) ==
    IF acc.raised THEN acc
    ELSE IF Invalid(t) THEN [acc EXCEPT !.skipped_invalid = @ + 1]
    ELSE IF Exists(acc.rows, t.tweet_id)
    THEN [acc EXCEPT !.deduped = @ + 1, !.rows = Replace(@, t)]
    ELSE InsertInto(acc, t)

BatchStepStoredOnly(rows, acc, t) ==
    IF acc.raised THEN acc
    ELSE IF Invalid(t) THEN [acc EXCEPT !.skipped_invalid = @ + 1]
    ELSE IF Exists(rows, t.tweet_id) THEN [acc EXCEPT !.deduped = @ + 1]
    ELSE InsertInto(acc, t)

BatchStepDupAsInvalid(rows, acc, t) ==
    IF acc.raised THEN acc
    ELSE IF Invalid(t) \/ Exists(acc.rows, t.tweet_id)
    THEN [acc EXCEPT !.skipped_invalid = @ + 1]
    ELSE InsertInto(acc, t)

\* One iteration of the loop of import_extension_tweets_batch: rows is the
\* table as the call found it, acc.rows the table as the connection sees it
\* now (the SELECT reads the rows this call has inserted so far).  An
\* exception ends the loop.
BatchStep(rows, acc, t) ==
    IF acc.raised THEN acc
    ELSE IF Invalid(t) THEN [acc EXCEPT !.skipped_invalid = @ + 1]
    ELSE IF Exists(acc.rows, t.tweet_id) THEN [acc EXCEPT !.deduped = @ + 1]
    ELSE InsertInto(acc, t)

RECURSIVE BatchLoop(_, _, _, _)
BatchLoop(rows, acc, batch, i) ==
    IF i > Len(batch) THEN acc
    ELSE BatchLoop(rows, BatchStep(rows, acc, batch[i]), batch, i + 1)

NoCounts(rows) == [rows |-> rows, raised |-> FALSE, imported |-> 0,
                   skipped_invalid |-> 0, deduped |-> 0]

\* import_extension_tweets_batch: the rows the connection holds when the call
\* ends, whether it raised, and the three counts returned.
import_extension_tweets_batch(rows, batch) ==
    BatchLoop(rows, NoCounts(rows), batch, 1)

\* ExtensionImporter.import_file on a well-formed file.
import_file(rows, f) ==
    LET normalized == ReadFile(f)
    IN IF normalized = <<>>
       THEN NoCounts(rows)
       ELSE import_extension_tweets_batch(rows, normalized)

\* What the caller gets: an exception, or the tuple of counts.
Counts(r) ==
    IF r.raised
    THEN [raised |-> TRUE, imported |-> 0, skipped_invalid |-> 0, deduped |-> 0]
    ELSE [raised |-> FALSE, imported |-> r.imported,
          skipped_invalid |-> r.skipped_invalid, deduped |-> r.deduped]

\* The dicts a caller may hand to import_extension_tweets_batch: what the
\* importer produces, and dicts with an empty identifier or timestamp.
BatchTweets ==
    {normalize_tweet(o) : o \in RawObjs} \cup
    { [tweet_id |-> "", created_at |-> T1, text |-> "alpha", url |-> None],
      [tweet_id |-> "2", created_at |-> "", text |-> "gamma", url |-> None] }

\* The arguments of import_extension_tweet (tweet_id, created_at and text
\* are of type str, url is Optional).
TweetIds == {"1", "2"}
SingleTweets ==
    {[tweet_id |-> i, created_at |-> c[1], text |-> c[2], url |-> None] :
        i \in TweetIds, c \in {<<T1, "omega">>, <<T2, "">>}}

import_extension_tweet_upsert(rows, t) ==
    IF Exists(rows, t.tweet_id)
    THEN [rows |-> Replace(rows, t), raised |-> FALSE, ret |-> FALSE]
    ELSE [rows |-> rows \cup {Row(t)}, raised |-> FALSE, ret |-> TRUE]

\* Repository.import_extension_tweet: the rows after the call, whether it
\* raised, and its result.
import_extension_tweet(rows, t) ==
    IF Exists(rows, t.tweet_id)
    THEN [rows |-> rows, raised |-> FALSE, ret |-> FALSE]
    ELSE LET ins == Insert(rows, Row(t))
         IN [rows |-> ins.rows, raised |-> ~ins.ok, ret |-> ins.ok]

----------------------------------------------------------------------------
\* storage/repository.py: the sampler

Min(a, b) == IF a <= b THEN a ELSE b

Range(q) == {q[i] : i \in 1..Len(q)}

\* Every ordering of a finite set.
RECURSIVE Perms(_)
Perms(S) ==
    IF S = {} THEN {<<>>}
    ELSE UNION {{<<x>> \o q : q \in Perms(S \ {x})} : x \in S}

\* The order of the created_at strings of the model under SQLite's text
\* comparison.
TsRank(ts) ==
    CASE ts = "" -> 0
      [] ts = T1 -> 1
      [] ts = T2 -> 2

\* SELECT ... FROM tweets ORDER BY created_at: every order that sorts by
\* created_at (rows with equal created_at come in any order).
OrderByCreatedAt(rows) ==
    {q \in Perms(rows) :
        \A i, j \in 1..Len(q) :
            i < j => TsRank(q[i].created_at) <= TsRank(q[j].created_at)}

\* random.sample(chunk, k): k distinct elements of the chunk, in any order.
RandomSample(chunk, k) ==
    UNION {Perms(picked) : picked \in {c \in SUBSET Range(chunk) : Cardinality(c) = k}}

ChunkSampleSizeNoRemainder(i, sample_size, drawn) == sample_size \div 3

\* chunk_sample_size for chunk i (0, 1, 2) when drawn records are sampled
\* already.
ChunkSampleSize(i, sample_size, drawn) ==
    IF i = 2 THEN sample_size - drawn ELSE sample_size \div 3

\* chunk i of all_tweets.
Chunk(all_tweets, i) ==
    LET chunk_size == Len(all_tweets) \div 3
        start == i * chunk_size
        end == IF i < 2 THEN start + chunk_size ELSE Len(all_tweets)
    IN SubSeq(all_tweets, start + 1, end)

\* The lists the three-chunk loop may build from all_tweets.
Stratified(all_tweets, sample_size) ==
    LET Draw(i, drawn) ==
            RandomSample(Chunk(all_tweets, i),
                         Min(ChunkSampleSize(i, sample_size, drawn),
                             Len(Chunk(all_tweets, i))))
    IN UNION {UNION {{s0 \o s1 \o s2 : s2 \in Draw(2, Len(s0) + Len(s1))}
                        : s1 \in Draw(1, Len(s0))}
                 : s0 \in Draw(0, 0)}

\* Repository.sample_tweets_for_profiling: the lists it may return.
sample_tweets_for_profiling(rows, sample_size) ==
    LET total == Cardinality(rows)
    IN IF total = 0 THEN {<<>>}
       ELSE IF total <= sample_size THEN OrderByCreatedAt(rows)
       ELSE UNION {Stratified(all_tweets, sample_size) :
                      all_tweets \in OrderByCreatedAt(rows)}

----------------------------------------------------------------------------
\* schemas/persona.py, storage/repository.py: persona versions

\* What generate_json may hand to the profiler: a profile with a version of
\* its own, a profile without one, the error-tagged object of a failed parse,
\* and an object whose voice_rules.sentence_length is outside its Literal
\* (the key sentence_length stands for that nested field).
PersonaResults ==
    { [version |-> 7, display_name |-> "Ada"],
      [display_name |-> "Bob"],
      [error |-> "Failed to parse JSON", raw |-> "no json here"],
      [display_name |-> "Eve", sentence_length |-> "huge"] }

\* Persona.model_validate accepts the object (unknown keys are ignored).
ValidPersona(result) ==
    "sentence_length" \in DOMAIN result =>
        result.sentence_length \in {"short", "medium", "long"}

\* Persona.model_validate: the fields given, the defaults for the others.
model_validate(result) ==
    [version |-> IF "version" \in DOMAIN result THEN result.version ELSE 1,
     display_name |-> IF "display_name" \in DOMAIN result
                      THEN result.display_name ELSE "Account DNA",
     sentence_length |-> IF "sentence_length" \in DOMAIN result
                         THEN result.sentence_length ELSE "medium"]

Personas == {model_validate(r) : r \in {x \in PersonaResults : ValidPersona(x)}}

\* Optional[Persona]: no persona.
NoPersona == [none |-> TRUE]

NextVersionReused(rows) == IF rows = <<>> THEN 1 ELSE Len(rows)

\* version INTEGER PRIMARY KEY AUTOINCREMENT: one more than the largest
\* version the table ever held (no row is ever deleted).
NextVersion(rows) == Len(rows) + 1

\* Repository.save_persona: the rows after the commit and the version
\* returned (cursor.lastrowid or 1).
save_persona(rows, persona) ==
    LET version == NextVersion(rows)
    IN [rows |-> Append(rows, [version |-> version, persona_json |-> persona]),
        ret |-> IF version # 0 THEN version ELSE 1]

\* SELECT ... ORDER BY version DESC LIMIT 1
LatestRow(rows) ==
    CHOOSE row \in Range(rows) : \A other \in Range(rows) : other.version <= row.version

get_latest_persona_payload_version(rows) ==
    IF rows = <<>> THEN NoPersona ELSE LatestRow(rows).persona_json

get_latest_persona_or_default(rows) ==
    IF rows = <<>> THEN [version |-> 1, display_name |-> "Account DNA",
                         sentence_length |-> "medium"]
    ELSE [LatestRow(rows).persona_json EXCEPT !.version = LatestRow(rows).version]

\* Repository.get_latest_persona
get_latest_persona(rows) ==
    IF rows = <<>> THEN NoPersona
    ELSE LET row == LatestRow(rows)
         IN [row.persona_json EXCEPT !.version = row.version]

\* Repository.get_persona_by_version
get_persona_by_version(rows, version) ==
    IF \E row \in Range(rows) : row.version = version
    THEN LET row == CHOOSE r \in Range(rows) : r.version = version
         IN [row.persona_json EXCEPT !.version = row.version]
    ELSE NoPersona

----------------------------------------------------------------------------
\* services/profiler.py

ReusesExistingNever(force, existing) == FALSE

\* build_persona returns the stored persona: `if not force` and
\* `if existing`.
ReusesExisting(force, existing) == ~force /\ existing # NoPersona

AttachVersionForgotten(persona, version) == persona

\* persona.version = version
AttachVersion(persona, version) == [persona EXCEPT !.version = version]

\* What provider.generate_json does: it raises (the cloud provider lets the
\* client's and json.loads' exceptions through), or returns an object.
ProviderOutcomes ==
    {[raises |-> TRUE, result |-> [error |-> "raised"]]} \cup
    {[raises |-> FALSE, result |-> r] : r \in PersonaResults}

NotCalled == [raises |-> FALSE, result |-> [error |-> "not called"]]

BuildCall(force, sample_size, raised, built, outcome, ret) ==
    [op |-> "build_persona", force |-> force, sample_size |-> sample_size,
     before |-> persona_versions, calls_before |-> llm_calls,
     raised |-> raised, built |-> built, outcome |-> outcome, ret |-> ret]

\* What prev keeps of a call.
Brief(c) ==
    IF c.op = "build_persona"
    THEN [op |-> c.op, raised |-> c.raised, built |-> c.built, ret |-> c.ret]
    ELSE [op |-> c.op]

\* ProfilerService.build_persona
BuildPersona ==
    \E force \in BOOLEAN, sample_size \in 0..MaxSample :
        LET existing == get_latest_persona(persona_versions)
        IN IF ReusesExisting(force, existing)
           THEN /\ last' = BuildCall(force, sample_size, "", FALSE, NotCalled, existing)
                /\ UNCHANGED <<persona_versions, returned, llm_calls>>
           ELSE \E sampled \in sample_tweets_for_profiling(tweets, sample_size) :
                IF sampled = <<>>
                THEN /\ last' = BuildCall(force, sample_size, "ValueError", FALSE,
                                          NotCalled, NoPersona)
                     /\ UNCHANGED <<persona_versions, returned, llm_calls>>
                ELSE /\ llm_calls < MaxCalls
                     /\ Len(persona_versions) < MaxVersions
                     /\ llm_calls' = llm_calls + 1
                     /\ \E outcome \in ProviderOutcomes :
                          IF outcome.raises
                          THEN /\ last' = BuildCall(force, sample_size, "ProviderError",
                                                    FALSE, outcome, NoPersona)
                               /\ UNCHANGED <<persona_versions, returned>>
                          ELSE IF ~ValidPersona(outcome.result)
                          THEN /\ last' = BuildCall(force, sample_size, "ValidationError",
                                                    FALSE, outcome, NoPersona)
                               /\ UNCHANGED <<persona_versions, returned>>
                          ELSE LET persona == model_validate(outcome.result)
                                   saved == save_persona(persona_versions, persona)
                               IN /\ persona_versions' = saved.rows
                                  /\ returned' = Append(returned, saved.ret)
                                  /\ last' = BuildCall(force, sample_size, "", TRUE, outcome,
                                                       AttachVersion(persona, saved.ret))

\* Repository.save_persona, called with any Persona.
SavePersona ==
    /\ Len(persona_versions) < MaxVersions
    /\ \E persona \in Personas :
         LET saved == save_persona(persona_versions, persona)
         IN /\ persona_versions' = saved.rows
            /\ returned' = Append(returned, saved.ret)
            /\ last' = [op |-> "save_persona", arg |-> persona, ret |-> saved.ret]

----------------------------------------------------------------------------
\* Actions on the tweets table.  last keeps the call: its argument, the table
\* as the call found it, and what it returned.

ImportExtensionTweet ==
    \E t \in SingleTweets :
        LET r == import_extension_tweet(tweets, t)
        IN /\ tweets' = r.rows
           /\ last' = [op |-> "import_extension_tweet", arg |-> t,
                       before |-> tweets, raised |-> r.raised, ret |-> r.ret]

ImportBatch(batch) ==
    LET r == import_extension_tweets_batch(tweets, batch)
    IN /\ tweets' = r.rows
       /\ last' = [op |-> "import_extension_tweets_batch", arg |-> batch,
                   before |-> tweets, ret |-> Counts(r)]

ImportFile(f) ==
    LET r == import_file(tweets, f)
    IN /\ tweets' = r.rows
       /\ last' = [op |-> "import_file", arg |-> f,
                   before |-> tweets, ret |-> Counts(r)]

\* Single inserts that fill the table before the call under study.
Preload ==
    /\ last.op = "none"
    /\ \E t \in SingleTweets : tweets' = import_extension_tweet(tweets, t).rows
    /\ UNCHANGED <<persona_versions, returned, generations, llm_calls, file, pending, invocations, connections, state, reviews, prev, last>>

InitStore ==
    /\ tweets = {}
    /\ persona_versions = <<>>
    /\ returned = <<>>
    /\ generations = <<>>
    /\ reviews = <<>>
    /\ llm_calls = 0
    /\ connections = <<>>
    /\ state = NoAppState
    /\ pending = NoPending
    /\ invocations = NoInvocations
    /\ prev = NoCall
    /\ last = NoCall

----------------------------------------------------------------------------
\* SpecImport: single inserts and batches in any order.

InitImport == InitStore /\ file = <<>>

NextImport ==
    \/ ImportExtensionTweet
         /\ UNCHANGED <<persona_versions, returned, generations, llm_calls, file, pending, invocations, connections, state, reviews, prev>>
    \/ (\E batch \in SeqsUpTo(BatchTweets, MaxBatchLen) : ImportBatch(batch))
         /\ UNCHANGED <<persona_versions, returned, generations, llm_calls, file, pending, invocations, connections, state, reviews, prev>>

SpecImport == InitImport /\ [][NextImport]_vars

----------------------------------------------------------------------------
\* SpecBatch: one batch of up to MaxFileLen records, handed to
\* import_extension_tweets_batch on a table that single inserts have filled.

ImportOneBatch ==
    /\ last.op = "none"
    /\ \E batch \in SeqsUpTo(BatchTweets, MaxFileLen) : ImportBatch(batch)
    /\ UNCHANGED <<persona_versions, returned, generations, llm_calls, file, pending, invocations, connections, state, reviews, prev>>

NextBatch == Preload \/ ImportOneBatch

SpecBatch == InitImport /\ [][NextBatch]_vars

----------------------------------------------------------------------------
\* SpecReimport: one export file, imported again and again, on a table that
\* single inserts have filled.

InitReimport == InitStore /\ file \in Files

ImportTheFile ==
    /\ ImportFile(file)
    /\ prev' = last
    /\ UNCHANGED <<persona_versions, returned, generations, llm_calls, file, pending, invocations, connections, state, reviews>>

NextReimport == Preload \/ ImportTheFile

SpecReimport == InitReimport /\ [][NextReimport]_vars

----------------------------------------------------------------------------
\* SpecSample: the sampler on tables of every size up to MaxTweets.

InsertNext ==
    /\ Cardinality(tweets) < MaxTweets
    /\ \E ts \in {T1, T2} :
          tweets' = import_extension_tweet(tweets,
                        [tweet_id |-> ToString(Cardinality(tweets) + 1),
                         created_at |-> ts, text |-> "omega", url |-> None]).rows
    /\ last' = NoCall
    /\ UNCHANGED <<persona_versions, returned, generations, llm_calls, file, pending, invocations, connections, state, reviews, prev>>

SampleTweets ==
    /\ \E sample_size \in 1..MaxSample :
         \E ret \in sample_tweets_for_profiling(tweets, sample_size) :
            last' = [op |-> "sample_tweets_for_profiling",
                     sample_size |-> sample_size, ret |-> ret]
    /\ UNCHANGED <<tweets, persona_versions, returned, generations, llm_calls, file, pending, invocations, connections, state, reviews, prev>>

NextSample == InsertNext \/ SampleTweets

SpecSample == InitImport /\ [][NextSample]_vars

----------------------------------------------------------------------------
\* SpecPersona: profile builds and saves on a table of up to MaxProfiled
\* tweets.

InsertProfiled ==
    /\ Cardinality(tweets) < MaxProfiled
    /\ tweets' = import_extension_tweet(tweets,
                     [tweet_id |-> ToString(Cardinality(tweets) + 1),
                      created_at |-> T1, text |-> "omega", url |-> None]).rows
    /\ last' = NoCall
    /\ prev' = Brief(last)
    /\ UNCHANGED <<persona_versions, returned, generations, llm_calls, file, pending, invocations, connections, state, reviews>>

NextPersona ==
    \/ InsertProfiled
    \/ BuildPersona /\ prev' = Brief(last) /\ UNCHANGED <<tweets, generations, file, pending, invocations, connections, state, reviews>>
    \/ SavePersona /\ prev' = Brief(last) /\ UNCHANGED <<tweets, generations, llm_calls, file, pending, invocations, connections, state, reviews>>

SpecPersona == InitImport /\ [][NextPersona]_vars

----------------------------------------------------------------------------
\* schemas/generation.py, storage/repository.py: drafts and the generations
\* table.  The table is the list of its rows in insertion order; created_at
\* (DEFAULT datetime('now'), one-second resolution) is not kept in the rows:
\* it never decreases along the list and consecutive rows may share it.

\* Draft.text is a str or a list of str.
Str(s) == [str |-> s]
List(q) == [list |-> q]
IsList(text) == "list" \in DOMAIN text

\* Draft.confidence, in hundredths.
DefaultConfidence == 80

\* The defaults of the Draft fields.
DraftDefaults ==
    [kind |-> "tweet", tags |-> <<>>, spice |-> "medium", rationale |-> "",
     confidence |-> DefaultConfidence, alignment_score |-> None, notes |-> None,
     reply_to_text |-> None, reply_tone |-> None, reply_intent |-> None,
     expected_engagement |-> None, suppression_risk |-> None,
     algorithm_alignment_notes |-> None, conversation_value |-> None,
     hook_strength |-> None, density_validated |-> None, unique_value |-> None]

\* Draft(**fields): the fields given, the defaults for the others.
\* density_validated is "True", "False" or None.
Draft(fields) == fields @@ DraftDefaults

\* uuid4() of the n-th draft made, as str(draft.id) prints it.
Uuid(n) == ToString(n)

\* json.dumps(draft.text if isinstance(draft.text, list) else [draft.text])
TextJson(text) == IF IsList(text) THEN text.list ELSE <<text.str>>

GenerationPrimaryKeyFails(rows, versions, draft) ==
    \E row \in Range(rows) : row.id = draft.id

\* The INSERT of save_generation violates the PRIMARY KEY on id or the
\* FOREIGN KEY on persona_version (PRAGMA foreign_keys = ON).
GenerationConstraintFails(rows, versions, draft) ==
    \/ \E row \in Range(rows) : row.id = draft.id
    \/ ~\E v \in Range(versions) : v.version = draft.persona_version

\* Repository.save_generation: the twelve columns written, and the id
\* returned; raised is the IntegrityError of a failed constraint.
save_generation(rows, versions, draft, provider, model, prompt_hash) ==
    IF GenerationConstraintFails(rows, versions, draft)
    THEN [rows |-> rows, raised |-> "IntegrityError", ret |-> None]
    ELSE [rows |-> Append(rows,
                     [id |-> draft.id, kind |-> draft.kind, topic |-> draft.topic,
                      spice |-> draft.spice,
                      persona_version |-> draft.persona_version,
                      text_json |-> TextJson(draft.text),
                      tags_json |-> draft.tags, rationale |-> draft.rationale,
                      confidence |-> draft.confidence, provider |-> provider,
                      model |-> model, prompt_hash |-> prompt_hash]),
          raised |-> "", ret |-> draft.id]

\* The Draft built from a row by get_recent_generations and
\* get_generation_by_id: nine columns are selected, text_data of length 1 is
\* read as a scalar, and a falsy confidence becomes 0.8.
DraftOfRow(row) ==
    Draft([id |-> row.id, kind |-> row.kind, topic |-> row.topic,
           spice |-> row.spice, persona_version |-> row.persona_version,
           text |-> IF Len(row.text_json) = 1 THEN Str(row.text_json[1])
                    ELSE List(row.text_json),
           tags |-> row.tags_json,
           rationale |-> Or(row.rationale, ""),
           confidence |-> IF row.confidence # 0 THEN row.confidence
                          ELSE DefaultConfidence])

\* Optional[Draft]: no draft.
NoDraft == [none |-> TRUE]

\* Repository.get_generation_by_id
get_generation_by_id(rows, gen_id) ==
    IF \E row \in Range(rows) : row.id = gen_id
    THEN DraftOfRow(CHOOSE row \in Range(rows) : row.id = gen_id)
    ELSE NoDraft

\* The created_at values the rows may carry: seconds that never decrease
\* along the insertion order.
CreatedAts(rows) ==
    {c \in [1..Len(rows) -> 1..Len(rows)] :
        \A i, j \in 1..Len(rows) : i < j => c[i] <= c[j]}

\* Repository.get_recent_generations: the lists it may return, the rows in
\* descending created_at (rows of one second in any order) cut at limit.
get_recent_generations(rows, limit) ==
    {[i \in 1..Min(limit, Len(rows)) |-> DraftOfRow(rows[q[i]])] :
        q \in UNION {{o \in Perms(1..Len(rows)) :
                         \A i, j \in 1..Len(rows) : i < j => c[o[i]] >= c[o[j]]}
                     : c \in CreatedAts(rows)}}

\* What a caller may hand to save_generation, but for id and
\* persona_version: a bare tweet, a generated tweet with its alignment
\* bundle, a reply, a thread group, a one-element list, a confidence of 0.
DraftTemplates ==
    { [topic |-> "ai", text |-> Str("hello")],
      [topic |-> "ai", text |-> Str("hello"), tags |-> <<"hook">>,
       rationale |-> "why", confidence |-> 90, expected_engagement |-> "reply",
       suppression_risk |-> "low", algorithm_alignment_notes |-> "notes",
       conversation_value |-> "high"],
      [kind |-> "reply", topic |-> "orig", text |-> Str("re"),
       reply_to_text |-> "orig", reply_tone |-> "curious",
       reply_intent |-> "add_context"],
      [kind |-> "thread_draft", topic |-> "ai", text |-> List(<<"a", "b">>),
       hook_strength |-> "strong", density_validated |-> "True",
       unique_value |-> "u"],
      [topic |-> "ai", text |-> List(<<"solo">>)],
      [topic |-> "ai", text |-> Str("hello"), confidence |-> 0] }

\* Repository.save_generation, called with a fresh Draft of any template and
\* any persona_version, or with a Draft that reuses the first stored id.
SaveGeneration ==
    /\ Len(generations) < MaxDrafts
    /\ \E template \in DraftTemplates, persona_version \in 1..MaxVersions,
          n \in {1, Len(generations) + 1} :
         /\ n = 1 => template = [topic |-> "ai", text |-> Str("hello")]
         /\ LET draft == Draft([id |-> Uuid(n),
                                persona_version |-> persona_version] @@ template)
                r == save_generation(generations, persona_versions, draft,
                                     "openai", "default", "hash")
            IN /\ generations' = r.rows
               /\ last' = [op |-> "save_generation", arg |-> draft,
                           before |-> generations, raised |-> r.raised,
                           ret |-> r.ret]

----------------------------------------------------------------------------
\* services/generator.py: generate_thread

\* dict.get(key, default)
GetOr(obj, key, default) == IF key \in DOMAIN obj THEN obj[key] ELSE default

\* q[:n]
SliceTo(q, n) ==
    IF n >= 0 THEN SubSeq(q, 1, Min(n, Len(q))) ELSE SubSeq(q, 1, Len(q) + n)

\* tweet_count: int = 5
DefaultTweetCount == 5

\* The i-th item of a thread response.
ThreadItem(i) ==
    IF i = 1 THEN [text |-> ToString(i), purpose |-> "hook"]
    ELSE [text |-> ToString(i), purpose |-> "body", unique_value |-> "detail"]

\* result.get or item.get raises AttributeError: the result is not a dict,
\* or an item of its list under key is not.
Malformed(result, key) ==
    \/ ~IsDict(result)
    \/ \E i \in 1..Len(GetOr(result, key, <<>>)) : ~IsDict(result[key][i])

\* What generate_json may hand to generate_thread: a thread of p items with
\* or without a recommended_tweet_count, the error-tagged object of a
\* failed parse, a JSON array or string, a thread whose item is a string.
ThreadResults ==
    {[thread |-> [i \in 1..p |-> ThreadItem(i)]] : p \in 0..MaxThread} \cup
    {[thread |-> [i \in 1..p |-> ThreadItem(i)], recommended_tweet_count |-> r,
      hook_strength |-> "strong"] : p \in 0..MaxThread, r \in 0..(MaxThread + 1)} \cup
    {[error |-> "Failed to parse JSON", raw |-> "no json here"],
     NotADict("list"), NotADict("str"), [thread |-> <<NotADict("str")>>]}

ThreadOutcomes ==
    {[raises |-> TRUE, result |-> [error |-> "raised"]]} \cup
    {[raises |-> FALSE, result |-> r] : r \in ThreadResults}

\* GeneratorService._parse_thread_result; the drafts take the ids
\* Uuid(made + 1), Uuid(made + 2), ...
parse_thread_result(result, topic, spice, persona_version, full_draft, made) ==
    LET raw_thread == GetOr(result, "thread", <<>>)
        kind == IF full_draft THEN "thread_draft" ELSE "thread_outline"
        density_validated == GetOr(result, "density_validated", "True")
        hook_strength == GetOr(result, "hook_strength", "moderate")
        suppression_risks == GetOr(result, "suppression_risks", <<>>)
    IN [i \in 1..Len(raw_thread) |->
          LET item == raw_thread[i]
              purpose == GetOr(item, "purpose", "body")
              density_score == GetOr(item, "density_score", "medium")
          IN Draft([id |-> Uuid(made + i), kind |-> kind, topic |-> topic,
                    text |-> Str(GetOr(item, "text", "")),
                    tags |-> <<purpose>>, spice |-> spice,
                    persona_version |-> persona_version,
                    rationale |-> GetOr(result, "rationale", ""),
                    hook_strength |-> IF i = 1 THEN hook_strength ELSE None,
                    density_validated |-> density_validated,
                    unique_value |-> GetOr(item, "unique_value", ""),
                    suppression_risk |-> IF suppression_risks = <<>> THEN "low"
                                         ELSE "medium",
                    algorithm_alignment_notes |->
                        "Density: " \o density_score \o ", Purpose: " \o purpose])]

TruncateNever(drafts, recommended_count) == drafts

\* if recommended_count < len(drafts): drafts = drafts[:recommended_count]
Truncate(drafts, recommended_count) ==
    IF recommended_count < Len(drafts) THEN SliceTo(drafts, recommended_count)
    ELSE drafts

\* for draft in drafts: self.repository.save_generation(...), from the i-th.
RECURSIVE SaveEach(_, _, _, _, _, _)
SaveEach(rows, versions, drafts, i, provider, prompt_hash) ==
    IF i > Len(drafts) THEN [rows |-> rows, raised |-> ""]
    ELSE LET r == save_generation(rows, versions, drafts[i], provider,
                                  "default", prompt_hash)
         IN IF r.raised # "" THEN [rows |-> r.rows, raised |-> r.raised]
            ELSE SaveEach(r.rows, versions, drafts, i + 1, provider, prompt_hash)

ThreadCall(tweet_count, full_draft, raised, result, ret) ==
    [op |-> "generate_thread", tweet_count |-> tweet_count,
     full_draft |-> full_draft, before |-> generations,
     calls_before |-> llm_calls, raised |-> raised, result |-> result,
     ret |-> ret]

\* GeneratorService.generate_thread
GenerateThread ==
    \E tweet_count \in {DefaultTweetCount, MaxThread}, full_draft \in BOOLEAN :
        LET persona == get_latest_persona(persona_versions)
        IN IF persona = NoPersona
           THEN /\ last' = ThreadCall(tweet_count, full_draft, "ValueError",
                                      NotCalled.result, <<>>)
                /\ UNCHANGED <<generations, llm_calls>>
           ELSE /\ llm_calls < MaxCalls
                /\ Len(generations) < MaxDrafts
                /\ llm_calls' = llm_calls + 1
                /\ \E outcome \in ThreadOutcomes :
                     IF outcome.raises
                     THEN /\ last' = ThreadCall(tweet_count, full_draft,
                                                "ProviderError", outcome.result, <<>>)
                          /\ UNCHANGED generations
                     ELSE IF Malformed(outcome.result, "thread")
                     THEN /\ last' = ThreadCall(tweet_count, full_draft,
                                                "AttributeError", outcome.result, <<>>)
                          /\ UNCHANGED generations
                     ELSE LET result == outcome.result
                              drafts == parse_thread_result(result, "ai", "medium",
                                            persona.version, full_draft,
                                            Len(generations))
                              recommended_count ==
                                  GetOr(result, "recommended_tweet_count", tweet_count)
                              kept == Truncate(drafts, recommended_count)
                              prompt_hash == <<"thread", "ai", tweet_count, full_draft,
                                               persona.version>>
                              saved == SaveEach(generations, persona_versions, kept, 1,
                                                "openai", prompt_hash)
                          IN /\ generations' = saved.rows
                             /\ last' = ThreadCall(tweet_count, full_draft,
                                                   saved.raised, result, kept)

\* Repository.save_persona, called with the default Persona.
SaveProfile ==
    /\ Len(persona_versions) < MaxVersions
    /\ LET saved == save_persona(persona_versions, model_validate([display_name |-> "Bob"]))
       IN /\ persona_versions' = saved.rows
          /\ returned' = Append(returned, saved.ret)
    /\ last' = NoCall

----------------------------------------------------------------------------
\* SpecGenerations: drafts saved against the stored profile versions.

NextGenerations ==
    \/ SaveProfile /\ UNCHANGED <<tweets, generations, llm_calls, file, pending, invocations, connections, state, reviews, prev>>
    \/ SaveGeneration
          /\ UNCHANGED <<tweets, persona_versions, returned, llm_calls, file, pending, invocations, connections, state, reviews, prev>>

SpecGenerations == InitImport /\ [][NextGenerations]_vars

----------------------------------------------------------------------------
\* SpecThread: one generate_thread call on a store that holds profile
\* versions and earlier drafts.

\* Earlier drafts in the table before the call under study.
PreloadDraft ==
    /\ last.op = "none"
    /\ Len(generations) < MaxDrafts - 1
    /\ persona_versions # <<>>
    /\ generations' =
          save_generation(generations, persona_versions,
              Draft([id |-> Uuid(Len(generations) + 1), topic |-> "ai",
                     text |-> Str("hello"),
                     persona_version |-> get_latest_persona(persona_versions).version]),
              "openai", "default", "hash").rows
    /\ UNCHANGED <<tweets, persona_versions, returned, llm_calls, file, pending, invocations, connections, state, reviews, prev, last>>

NextThread ==
    \/ last.op = "none" /\ SaveProfile
          /\ UNCHANGED <<tweets, generations, llm_calls, file, pending, invocations, connections, state, reviews, prev>>
    \/ PreloadDraft
    \/ last.op = "none" /\ GenerateThread
          /\ UNCHANGED <<tweets, persona_versions, returned, file, pending, invocations, connections, state, reviews, prev>>

SpecThread == InitImport /\ [][NextThread]_vars

----------------------------------------------------------------------------
\* services/reviewer.py: check_suppression_risk.  A text is a list of tokens
\* joined by single spaces, with no whitespace around it; a tag f"{a}:{b}"
\* is the pair <<a, b>>, and a tag without a colon the pair <<a, "">>.

\* A word of fifty characters.
Pad50 == "xxxxxxxxxxxxxxxxxxxxxxxxxxxxxxxxxxxxxxxxxxxxxxxxxx"

Tokens ==
    {"Like if", "f4f", "thoughts?", "who else", "hot take", "just saying", "?",
     "#a #b #c", "#a #b #c #d", "@a @b @c", "@a @b @c @d", "this", "word", Pad50}

Texts == SeqsUpTo(Tokens, MaxTokens)

\* str.lower() of a token.
Lower(tok) == IF tok = "Like if" THEN "like if" ELSE tok

\* len(tok)
TokLen(tok) ==
    CASE tok \in {"?"} -> 1
      [] tok \in {"f4f"} -> 3
      [] tok \in {"this", "word"} -> 4
      [] tok \in {"Like if"} -> 7
      [] tok \in {"who else", "hot take", "#a #b #c", "@a @b @c"} -> 8
      [] tok \in {"thoughts?"} -> 9
      [] tok \in {"just saying", "#a #b #c #d", "@a @b @c @d"} -> 11
      [] tok = Pad50 -> 50

\* tok.count(ch)
TokCount(tok, ch) ==
    CASE ch = "?" /\ tok \in {"?", "thoughts?"} -> 1
      [] ch = "#" /\ tok = "#a #b #c" -> 3
      [] ch = "#" /\ tok = "#a #b #c #d" -> 4
      [] ch = "@" /\ tok = "@a @b @c" -> 3
      [] ch = "@" /\ tok = "@a @b @c @d" -> 4
      [] OTHER -> 0

\* text.count(ch)
Count(text, ch) ==
    LET upto[i \in 0..Len(text)] ==
            IF i = 0 THEN 0 ELSE upto[i - 1] + TokCount(text[i], ch)
    IN upto[Len(text)]

\* The number of characters of the text up to the end of its i-th token.
EndOf(text, i) ==
    LET upto[k \in 0..Len(text)] ==
            IF k = 0 THEN 0 - 1 ELSE upto[k - 1] + 1 + TokLen(text[k])
    IN upto[i]

engagement_bait ==
    <<"like if", "rt if", "retweet if", "follow for follow", "f4f",
      "like for like", "l4l", "follow back">>

question_patterns ==
    <<"what do you think", "anyone else", "am i the only one", "thoughts?",
      "agree or disagree", "right?", "don't you think", "isn't it",
      "wouldn't you", "who else">>

opinion_labels ==
    <<"unpopular opinion", "hot take", "controversial take", "just saying",
      "hear me out", "most people miss this", "most people don't realize",
      "most people won't tell you", "most people forget",
      "most people overlook", "i'll probably get hate for this",
      "not sure if this is controversial", "this might be a hot take",
      "everyone's wrong about">>

low_effort == {"this", "same", "facts", "real"}

\* pattern in text_lower
Contains(text, pattern) == \E i \in 1..Len(text) : Lower(text[i]) = pattern

\* text_lower.startswith(pattern) or f" {pattern}" in text_lower[:50]
Opens(text, pattern) ==
    \/ text # <<>> /\ Lower(text[1]) = pattern
    \/ \E i \in 2..Len(text) : Lower(text[i]) = pattern /\ EndOf(text, i) <= 50

\* The tags of one family for the patterns found, in the order of the list.
Tagged(family, found) == [i \in 1..Len(found) |-> <<family, found[i]>>]

\* "question" in p, over the tags the scan produces: no pattern of the three
\* lists holds the word, three tag names do.
HasQuestion(p) ==
    p[1] \in {"question_pattern", "ends_with_question", "multiple_questions"}

ExcessiveFromThree(count) == count >= 3

\* hashtag_count > 3, mention_count > 3
Excessive(count) == count > 3

\* patterns_found, in the order the scan appends.
PatternsFound(text) ==
    Tagged("engagement_bait",
           SelectSeq(engagement_bait, LAMBDA p : Contains(text, p)))
    \o Tagged("question_pattern",
              SelectSeq(question_patterns, LAMBDA p : Contains(text, p)))
    \o Tagged("opinion_label",
              SelectSeq(opinion_labels, LAMBDA p : Opens(text, p)))
    \o (IF text # <<>> /\ text[Len(text)] \in {"?", "thoughts?"}
        THEN <<<<"ends_with_question", "">>>> ELSE <<>>)
    \o (IF Count(text, "?") > 1
        THEN <<<<"multiple_questions", ToString(Count(text, "?"))>>>> ELSE <<>>)
    \o (IF Excessive(Count(text, "#"))
        THEN <<<<"excessive_hashtags", ToString(Count(text, "#"))>>>> ELSE <<>>)
    \o (IF Excessive(Count(text, "@"))
        THEN <<<<"excessive_mentions", ToString(Count(text, "@"))>>>> ELSE <<>>)
    \o (IF Len(text) = 1 /\ (Lower(text[1]) \in low_effort \/ text[1] \in low_effort)
        THEN <<<<"low_effort_content", "">>>> ELSE <<>>)

RiskLevelQuestionsUnweighted(question_issues, other_issues) ==
    IF question_issues + other_issues = 0 THEN "low"
    ELSE IF question_issues + other_issues <= 2 THEN "medium"
    ELSE "high"

\* risk_level, from len(question_issues) and len(other_issues).
RiskLevel(question_issues, other_issues) ==
    IF question_issues > 0
    THEN IF question_issues > 1 \/ other_issues > 0 THEN "high" ELSE "medium"
    ELSE IF other_issues = 0 THEN "low"
    ELSE IF other_issues <= 2 THEN "medium"
    ELSE "high"

check_suppression_risk_by_store(text) ==
    LET patterns_found == PatternsFound(text)
        risk_level == IF generations = <<>> THEN "low" ELSE "high"
    IN [risk_level |-> risk_level, patterns_found |-> patterns_found,
        recommendation |-> IF risk_level # "low" THEN "review" ELSE "ok"]

\* ReviewerService.check_suppression_risk
check_suppression_risk(text) ==
    LET patterns_found == PatternsFound(text)
        question_issues == SelectSeq(patterns_found, HasQuestion)
        other_issues == SelectSeq(patterns_found, LAMBDA p : ~HasQuestion(p))
        risk_level == RiskLevel(Len(question_issues), Len(other_issues))
    IN [risk_level |-> risk_level, patterns_found |-> patterns_found,
        recommendation |-> IF risk_level # "low" THEN "review" ELSE "ok"]

CheckSuppressionRisk ==
    /\ last.op = "none"
    /\ \E text \in Texts :
         last' = [op |-> "check_suppression_risk", arg |-> text,
                  ret |-> check_suppression_risk(text)]
    /\ UNCHANGED <<tweets, persona_versions, returned, generations, llm_calls,
                   file, pending, invocations, connections, state, reviews, prev>>

----------------------------------------------------------------------------
\* SpecRisk: check_suppression_risk on every text of up to MaxTokens tokens.

NextRisk == CheckSuppressionRisk

SpecRisk == InitImport /\ [][NextRisk]_vars

----------------------------------------------------------------------------
\* services/generator.py: generate_tweets and generate_replies

\* The items of a response: one with in-set categories, one with categories
\* outside their sets.
ItemA ==
    [text |-> "a", tags |-> <<"hook">>, rationale |-> "why",
     expected_engagement |-> "reply", suppression_risk |-> "low",
     conversation_value |-> "high", approach |-> "joke"]

ItemB ==
    [text |-> "b", expected_engagement |-> "viral", suppression_risk |-> "severe",
     conversation_value |-> "huge"]

\* What generate_json may hand to a generator that reads its items under
\* key: lists of items, the error-tagged object of a failed parse, an object
\* without the key, a JSON array or string, a list with an item that is a
\* string.
ItemResults(key) ==
    {(key :> items) : items \in {<<>>, <<ItemA>>, <<ItemA, ItemB>>,
                                 <<NotADict("str")>>, <<ItemA, NotADict("str")>>}}
    \cup {[error |-> "Failed to parse JSON", raw |-> "no json here"],
          [note |-> "no list here"], NotADict("list"), NotADict("str")}

ItemOutcomes(key) ==
    {[raises |-> TRUE, result |-> [error |-> "raised"]]} \cup
    {[raises |-> FALSE, result |-> r] : r \in ItemResults(key)}

\* value if value in allowed else fallback
InSetOr(value, allowed, fallback) == IF value \in allowed THEN value ELSE fallback

\* GeneratorService._parse_generation_result on a dict whose items are dicts.
parse_generation_result(result, topic, spice, persona_version, made) ==
    LET raw_drafts == GetOr(result, "drafts", <<>>)
    IN [i \in 1..Len(raw_drafts) |->
          LET item == raw_drafts[i]
          IN Draft([id |-> Uuid(made + i), kind |-> "tweet", topic |-> topic,
                    text |-> Str(GetOr(item, "text", "")),
                    tags |-> GetOr(item, "tags", <<>>), spice |-> spice,
                    persona_version |-> persona_version,
                    rationale |-> GetOr(item, "rationale", ""),
                    confidence |-> GetOr(item, "confidence", DefaultConfidence),
                    expected_engagement |->
                        InSetOr(Get(item, "expected_engagement"),
                                {"reply", "like", "repost", "mixed"}, None),
                    suppression_risk |->
                        InSetOr(Get(item, "suppression_risk"),
                                {"low", "medium", "high"}, None),
                    algorithm_alignment_notes |->
                        Get(item, "algorithm_alignment_notes")])]

\* GeneratorService._parse_reply_result on a dict whose items are dicts
\* (original_tweet is shorter than 50 characters).
parse_reply_result(result, original_tweet, tone, persona_version, made) ==
    LET raw_replies == GetOr(result, "replies", <<>>)
    IN [i \in 1..Len(raw_replies) |->
          LET item == raw_replies[i]
              intent == GetOr(item, "intent", GetOr(item, "approach", "react"))
              value_added == GetOr(item, "value_added", "")
          IN Draft([id |-> Uuid(made + i), kind |-> "reply",
                    topic |-> "reply:" \o original_tweet \o "...",
                    text |-> Str(GetOr(item, "text", "")),
                    tags |-> <<GetOr(item, "approach", "react")>>,
                    spice |-> "medium", persona_version |-> persona_version,
                    rationale |-> GetOr(item, "rationale", ""),
                    confidence |-> GetOr(item, "confidence", DefaultConfidence),
                    reply_to_text |-> original_tweet, reply_tone |-> tone,
                    reply_intent |-> intent,
                    suppression_risk |->
                        InSetOr(GetOr(item, "suppression_risk", "low"),
                                {"low", "medium", "high"}, "low"),
                    conversation_value |->
                        InSetOr(GetOr(item, "conversation_value", "medium"),
                                {"low", "medium", "high"}, "medium"),
                    unique_value |-> value_added,
                    algorithm_alignment_notes |->
                        "Intent: " \o intent \o ", Value: " \o
                        (IF value_added # "" THEN value_added ELSE "N/A")])]

\* The record of a generate_tweets or generate_replies call.
ItemCall(op, raised, result, ret) ==
    [op |-> op, before |-> generations, calls_before |-> llm_calls,
     latest |-> get_latest_persona(persona_versions),
     raised |-> raised, result |-> result, ret |-> ret]

\* The body generate_tweets and generate_replies share: the required
\* persona, one generate_json call, the parse, one save_generation per draft.
GenerateItems(op, key) ==
    LET persona == get_latest_persona(persona_versions)
    IN IF persona = NoPersona
       THEN /\ last' = ItemCall(op, "ValueError", NotCalled.result, <<>>)
            /\ UNCHANGED <<generations, llm_calls>>
       ELSE /\ llm_calls < MaxCalls
            /\ Len(generations) < MaxDrafts
            /\ llm_calls' = llm_calls + 1
            /\ \E outcome \in ItemOutcomes(key) :
                 IF outcome.raises
                 THEN /\ last' = ItemCall(op, "ProviderError", outcome.result, <<>>)
                      /\ UNCHANGED generations
                 ELSE IF Malformed(outcome.result, key)
                 THEN /\ last' = ItemCall(op, "AttributeError", outcome.result, <<>>)
                      /\ UNCHANGED generations
                 ELSE LET result == outcome.result
                          drafts ==
                              IF op = "generate_tweets"
                              THEN parse_generation_result(result, "ai", "medium",
                                       persona.version, Len(generations))
                              ELSE parse_reply_result(result, "orig", "curious",
                                       persona.version, Len(generations))
                          saved == SaveEach(generations, persona_versions, drafts, 1,
                                            "openai", <<op, persona.version>>)
                      IN /\ generations' = saved.rows
                         /\ last' = ItemCall(op, saved.raised, result, drafts)

\* GeneratorService.generate_tweets
GenerateTweets == GenerateItems("generate_tweets", "drafts")

\* GeneratorService.generate_replies
GenerateReplies == GenerateItems("generate_replies", "replies")

----------------------------------------------------------------------------
\* schemas/generation.py, storage/repository.py, services/reviewer.py:
\* reviews.  The table is the list of its rows in insertion order.

\* The defaults of the ReviewResult fields.
ReviewDefaults ==
    [violations |-> <<>>, suggestions |-> <<>>, revised_text |-> None,
     algorithm_alignment_score |-> None, suppression_risk_score |-> None,
     repetition_risk |-> None, conversation_value |-> None,
     algorithm_issues |-> <<>>, persona_algorithm_conflicts |-> <<>>,
     revision_reason |-> None]

\* ReviewResult(**fields)
ReviewResult(fields) == fields @@ ReviewDefaults

\* The INSERT of save_review violates the FOREIGN KEY on generation_id.
ReviewConstraintFails(gens, review) ==
    ~\E g \in Range(gens) : g.id = review.draft_id

save_review_replacing(rows, gens, review) ==
    IF ReviewConstraintFails(gens, review)
    THEN [rows |-> rows, raised |-> "IntegrityError", ret |-> None]
    ELSE LET others == SelectSeq(rows, LAMBDA row :
                                     row.generation_id # review.draft_id)
         IN [rows |-> Append(others,
                        [id |-> Uuid(Len(rows) + 1),
                         generation_id |-> review.draft_id,
                         alignment_score |-> review.alignment_score,
                         violations_json |-> review.violations,
                         suggestions_json |-> review.suggestions,
                         revised_text_json |-> None]),
             raised |-> "", ret |-> Uuid(Len(rows) + 1)]

\* Repository.save_review: the six columns written under a fresh id.
save_review(rows, gens, review) ==
    IF ReviewConstraintFails(gens, review)
    THEN [rows |-> rows, raised |-> "IntegrityError", ret |-> None]
    ELSE [rows |-> Append(rows,
                     [id |-> Uuid(Len(rows) + 1),
                      generation_id |-> review.draft_id,
                      alignment_score |-> review.alignment_score,
                      violations_json |-> review.violations,
                      suggestions_json |-> review.suggestions,
                      revised_text_json |-> IF Truthy(review.revised_text)
                                            THEN review.revised_text ELSE None]),
          raised |-> "", ret |-> Uuid(Len(rows) + 1)]

\* The ReviewResult built from a row by get_reviews_for_generation.
ReviewOfRow(row) ==
    ReviewResult([draft_id |-> row.generation_id,
                  alignment_score |-> row.alignment_score,
                  violations |-> row.violations_json,
                  suggestions |-> row.suggestions_json,
                  revised_text |-> IF Truthy(row.revised_text_json)
                                   THEN row.revised_text_json ELSE None])

\* Repository.get_reviews_for_generation: the lists it may return, the rows
\* of the draft in descending created_at (rows of one second in any order).
get_reviews_for_generation(rows, generation_id) ==
    LET mine == SelectSeq(rows, LAMBDA row : row.generation_id = generation_id)
    IN {[i \in 1..Len(mine) |-> ReviewOfRow(mine[q[i]])] :
           q \in UNION {{o \in Perms(1..Len(mine)) :
                            \A i, j \in 1..Len(mine) : i < j => c[o[i]] >= c[o[j]]}
                        : c \in CreatedAts(mine)}}

\* What generate_json may hand to the reviewer: a passing score, a failing
\* score with a revision and categories outside their sets, the error-tagged
\* object of a failed parse (it has neither category), a JSON array.
ReviewResults ==
    { [alignment_score |-> 85, suggestions |-> <<"shorter">>,
       repetition_risk |-> "high", conversation_value |-> "low"],
      [alignment_score |-> 40, violations |-> <<"tone">>,
       revised_text |-> "better", repetition_risk |-> "extreme",
       conversation_value |-> "huge"],
      [error |-> "Failed to parse JSON", raw |-> "no json here"],
      NotADict("list") }

ReviewOutcomes ==
    {[raises |-> TRUE, result |-> [error |-> "raised"]]} \cup
    {[raises |-> FALSE, result |-> r] : r \in ReviewResults}

review_single_unvalidated(draft, result) ==
    ReviewResult(
        [draft_id |-> draft.id,
         alignment_score |-> GetOr(result, "alignment_score", 0),
         violations |-> GetOr(result, "violations", <<>>),
         suggestions |-> GetOr(result, "suggestions", <<>>),
         revised_text |-> Get(result, "revised_text"),
         algorithm_alignment_score |-> Get(result, "algorithm_alignment_score"),
         suppression_risk_score |-> Get(result, "suppression_risk_score"),
         repetition_risk |-> GetOr(result, "repetition_risk", "low"),
         conversation_value |-> GetOr(result, "conversation_value", "medium"),
         algorithm_issues |-> GetOr(result, "algorithm_issues", <<>>),
         persona_algorithm_conflicts |-> <<>>,
         revision_reason |-> Get(result, "revision_reason")])

\* ReviewerService._review_single after its generate_json call returned
\* result, a dict.
review_single(draft, result) ==
    ReviewResult(
        [draft_id |-> draft.id,
         alignment_score |-> GetOr(result, "alignment_score", 0),
         violations |-> GetOr(result, "violations", <<>>),
         suggestions |-> GetOr(result, "suggestions", <<>>),
         revised_text |-> Get(result, "revised_text"),
         algorithm_alignment_score |-> Get(result, "algorithm_alignment_score"),
         suppression_risk_score |-> Get(result, "suppression_risk_score"),
         repetition_risk |-> InSetOr(Get(result, "repetition_risk"),
                                     {"low", "medium", "high"}, "low"),
         conversation_value |-> InSetOr(Get(result, "conversation_value"),
                                        {"low", "medium", "high"}, "medium"),
         algorithm_issues |-> GetOr(result, "algorithm_issues", <<>>),
         persona_algorithm_conflicts |-> <<>>,
         revision_reason |-> Get(result, "revision_reason")])

\* One iteration of review_drafts, or the body of review_single_draft: the
\* generate_json call, the parse, save_review.  acc holds the reviews rows,
\* the calls made, the exception raised and the results so far.
ReviewStep(acc, gens, draft, outcome) ==
    IF acc.raised # "" THEN acc
    ELSE IF outcome.raises
    THEN [acc EXCEPT !.calls = @ + 1, !.raised = "ProviderError"]
    ELSE IF ~IsDict(outcome.result)
    THEN [acc EXCEPT !.calls = @ + 1, !.raised = "AttributeError"]
    ELSE LET review == review_single(draft, outcome.result)
             saved == save_review(acc.rows, gens, review)
         IN [rows |-> saved.rows, calls |-> acc.calls + 1,
             raised |-> saved.raised, ret |-> Append(acc.ret, review)]

RECURSIVE ReviewLoop(_, _, _, _, _)
ReviewLoop(acc, gens, drafts, outcomes, i) ==
    IF i > Len(drafts) THEN acc
    ELSE ReviewLoop(ReviewStep(acc, gens, drafts[i], outcomes[i]), gens, drafts,
                    outcomes, i + 1)

ReviewCall(op, arg, raised, outcomes, ret) ==
    [op |-> op, arg |-> arg, before |-> reviews, drafts_before |-> generations,
     calls_before |-> llm_calls, raised |-> raised, outcomes |-> outcomes,
     ret |-> ret]

\* ReviewerService.review_drafts
ReviewDrafts ==
    \E last_n \in 1..MaxDrafts :
        LET persona == get_latest_persona(persona_versions)
        IN IF persona = NoPersona
           THEN /\ last' = ReviewCall("review_drafts", last_n, "ValueError", <<>>, <<>>)
                /\ UNCHANGED <<reviews, llm_calls>>
           ELSE \E drafts \in get_recent_generations(generations, last_n) :
                \E outcomes \in [1..Len(drafts) -> ReviewOutcomes] :
                  LET done == ReviewLoop([rows |-> reviews, calls |-> llm_calls,
                                          raised |-> "", ret |-> <<>>],
                                         generations, drafts, outcomes, 1)
                  IN /\ done.calls <= MaxCalls
                     /\ Len(done.rows) <= MaxReviews
                     /\ reviews' = done.rows
                     /\ llm_calls' = done.calls
                     /\ last' = ReviewCall("review_drafts", last_n, done.raised,
                                           outcomes, done.ret)

\* ReviewerService.review_single_draft
ReviewSingleDraft ==
    \E draft_id \in {Uuid(n) : n \in 1..MaxDrafts} :
        LET persona == get_latest_persona(persona_versions)
            draft == get_generation_by_id(generations, draft_id)
        IN IF persona = NoPersona
           THEN /\ last' = ReviewCall("review_single_draft", draft_id, "ValueError",
                                      <<>>, <<>>)
                /\ UNCHANGED <<reviews, llm_calls>>
           ELSE IF draft = NoDraft
           THEN /\ last' = ReviewCall("review_single_draft", draft_id, "", <<>>, <<>>)
                /\ UNCHANGED <<reviews, llm_calls>>
           ELSE \E outcome \in ReviewOutcomes :
                  LET done == ReviewStep([rows |-> reviews, calls |-> llm_calls,
                                          raised |-> "", ret |-> <<>>],
                                         generations, draft, outcome)
                  IN /\ done.calls <= MaxCalls
                     /\ Len(done.rows) <= MaxReviews
                     /\ reviews' = done.rows
                     /\ llm_calls' = done.calls
                     /\ last' = ReviewCall("review_single_draft", draft_id,
                                           done.raised, <<outcome>>, done.ret)

\* Repository.save_review, called with a ReviewResult for any draft id.
SaveReview ==
    /\ Len(reviews) < MaxReviews
    /\ \E draft_id \in {Uuid(n) : n \in 1..MaxDrafts}, score \in {40, 85} :
         LET review == ReviewResult([draft_id |-> draft_id, alignment_score |-> score])
             saved == save_review(reviews, generations, review)
         IN /\ reviews' = saved.rows
            /\ last' = [op |-> "save_review", arg |-> review, before |-> reviews,
                        raised |-> saved.raised, ret |-> saved.ret]

----------------------------------------------------------------------------
\* importer/extension.py on the text of a file: the lines _read_jsonl
\* iterates over and the document json.load reads.

\* A parsed JSON array.
JsonList(items) == [pytype |-> "list", items |-> items]

A1 == [tweet_id |-> "1", created_at |-> T1, text |-> "alpha", url |-> "u1"]
A2 == [id |-> "2", timestamp |-> T2, content |-> "gamma", link |-> "u2"]

\* {"tweets": [...]}
WrapperDoc == [tweets |-> <<A1, A2>>]

\* [{...}, "x", {...}]
ArrayDoc == JsonList(<<A1, NotADict("str"), A2>>)

\* A line of text: blank after strip(), text json.loads rejects, or JSON text.
BlankLine == [text |-> "blank"]
BadLine == [text |-> "malformed"]
JsonLine(value) == [text |-> "json", value |-> value]

LineTexts ==
    {BlankLine, BadLine} \cup
    {JsonLine(v) : v \in {A1, A2, WrapperDoc, ArrayDoc, NotADict("int")}}

\* json.JSONDecodeError, with the line of the position it reports.
DecodeError(line) == [ok |-> FALSE, line |-> line]
Decoded(value) == [ok |-> TRUE, value |-> value]

\* json.load on the whole text of a file of these lines: one JSON value
\* with blank lines around it, or a JSONDecodeError: "Expecting value" at
\* line 1 column 1 of a file with no text, an error at the first line with
\* text when that line is malformed, "Extra data" at the second line with
\* text otherwise.
LoadLines(lines) ==
    LET at == SelectSeq([i \in 1..Len(lines) |-> i],
                        LAMBDA i : lines[i].text # "blank")
    IN IF at = <<>> THEN DecodeError(1)
       ELSE IF lines[at[1]].text = "malformed" THEN DecodeError(at[1])
       ELSE IF Len(at) = 1 THEN Decoded(lines[at[1]].value)
       ELSE DecodeError(at[2])

Suffixes == {".jsonl", ".json", ".txt"}

\* The files import_file may be given: any lines under any suffix, and the
\* array and wrapper documents printed over several lines ("[", "{...}",
\* "]"), no line of which but an inner one is JSON by itself.
Paths ==
    {[suffix |-> x, lines |-> l, document |-> LoadLines(l)] :
        x \in Suffixes, l \in SeqsUpTo(LineTexts, MaxFileLen)} \cup
    {[suffix |-> x, lines |-> <<BadLine, JsonLine(A1), BadLine>>,
      document |-> Decoded(JsonList(<<A1>>))] : x \in Suffixes} \cup
    {[suffix |-> x, lines |-> <<BadLine, BadLine>>,
      document |-> Decoded(WrapperDoc)] : x \in Suffixes}

\* [self._normalize_tweet(obj) for obj in items if isinstance(obj, dict)]
NormalizeDicts(items) ==
    LET dicts == SelectSeq(items, IsDict)
    IN [i \in 1..Len(dicts) |-> normalize_tweet(dicts[i])]

Read(raised, line, normalized) ==
    [raised |-> raised, line |-> line, tweets |-> normalized]

read_jsonl_skipping_malformed(lines, i, acc) ==
    Read("", 0, NormalizeDicts(
        [k \in 1..Len(SelectSeq(lines, LAMBDA l : l.text = "json")) |->
            SelectSeq(lines, LAMBDA l : l.text = "json")[k].value]))

\* ExtensionImporter._read_jsonl consumed by list(), from line i on with acc
\* yielded so far: blank lines are skipped, a line that is not JSON raises
\* ExtensionImportError naming its number, a value that is not a dict is
\* skipped.
RECURSIVE read_jsonl(_, _, _)
read_jsonl(lines, i, acc) ==
    IF i > Len(lines) THEN Read("", 0, acc)
    ELSE IF lines[i].text = "blank" THEN read_jsonl(lines, i + 1, acc)
    ELSE IF lines[i].text = "malformed" THEN Read("ExtensionImportError", i, <<>>)
    ELSE IF IsDict(lines[i].value)
    THEN read_jsonl(lines, i + 1, Append(acc, normalize_tweet(lines[i].value)))
    ELSE read_jsonl(lines, i + 1, acc)

\* ExtensionImporter._read_json
read_json(document) ==
    IF ~document.ok THEN Read("ExtensionImportError", document.line, <<>>)
    ELSE LET data == document.value
         IN IF ~IsDict(data)
            THEN IF data.pytype = "list" THEN Read("", 0, NormalizeDicts(data.items))
                 ELSE Read("ExtensionImportError", 0, <<>>)
            ELSE IF "tweets" \in DOMAIN data
            THEN Read("", 0, NormalizeDicts(data.tweets))
            ELSE Read("", 0, <<normalize_tweet(data)>>)

\* The reading part of ExtensionImporter.import_file: by suffix; for another
\* suffix _read_jsonl, and _read_json when that raised json.JSONDecodeError.
ReadPath(path) ==
    IF path.suffix = ".jsonl" THEN read_jsonl(path.lines, 1, <<>>)
    ELSE IF path.suffix = ".json" THEN read_json(path.document)
    ELSE LET read == read_jsonl(path.lines, 1, <<>>)
         IN IF read.raised = "JSONDecodeError" THEN read_json(path.document)
            ELSE read

\* ExtensionImporter.import_file on an existing file.
import_file_path(rows, path) ==
    LET read == ReadPath(path)
    IN IF read.raised # ""
       THEN [NoCounts(rows) EXCEPT !.raised = TRUE] @@
            [exception |-> read.raised, line |-> read.line]
       ELSE IF read.tweets = <<>>
       THEN NoCounts(rows) @@ [exception |-> "", line |-> 0]
       ELSE LET r == import_extension_tweets_batch(rows, read.tweets)
            IN r @@ [exception |-> IF r.raised THEN "IntegrityError" ELSE "",
                     line |-> 0]

ImportFilePath(path) ==
    LET r == import_file_path(tweets, path)
    IN /\ tweets' = r.rows
       /\ last' = [op |-> "import_file", arg |-> path, before |-> tweets,
                   raised |-> r.exception, line |-> r.line, ret |-> Counts(r)]

ImportPath ==
    /\ last.op = "none"
    /\ ImportFilePath(file)
    /\ UNCHANGED <<persona_versions, returned, generations, llm_calls, file, pending, invocations, connections, state,
                   reviews, prev>>

PreloadOne == Cardinality(tweets) < MaxProfiled - 1 /\ Preload

InitPath == InitStore /\ file \in Paths

NextPath == PreloadOne \/ ImportPath

SpecPath == InitPath /\ [][NextPath]_vars

----------------------------------------------------------------------------
\* SpecService: one call of a service (generator, reviewer, profiler) on a
\* store that holds any number of tweets, profile versions and drafts.

ServiceOps ==
    {"generate_tweets", "generate_thread", "generate_replies", "review_drafts",
     "review_single_draft", "build_persona"}

NextService ==
    \/ last.op = "none" /\ InsertProfiled
    \/ last.op = "none" /\ SaveProfile
          /\ UNCHANGED <<tweets, generations, reviews, llm_calls, file, pending, invocations, connections, state, prev>>
    \/ PreloadDraft
    \/ last.op = "none" /\ GenerateTweets
          /\ UNCHANGED <<tweets, persona_versions, returned, reviews, file, pending, invocations, connections, state, prev>>
    \/ last.op = "none" /\ GenerateThread
          /\ UNCHANGED <<tweets, persona_versions, returned, reviews, file, pending, invocations, connections, state, prev>>
    \/ last.op = "none" /\ GenerateReplies
          /\ UNCHANGED <<tweets, persona_versions, returned, reviews, file, pending, invocations, connections, state, prev>>
    \/ last.op = "none" /\ ReviewDrafts
          /\ UNCHANGED <<tweets, persona_versions, returned, generations, file, pending, invocations, connections, state, prev>>
    \/ last.op = "none" /\ ReviewSingleDraft
          /\ UNCHANGED <<tweets, persona_versions, returned, generations, file, pending, invocations, connections, state, prev>>
    \/ last.op = "none" /\ BuildPersona
          /\ UNCHANGED <<tweets, generations, reviews, file, pending, invocations, connections, state, prev>>

SpecService == InitImport /\ [][NextService]_vars

----------------------------------------------------------------------------
\* SpecConnection: the sqlite connection of a CLI command and of an HTTP
\* API request, one invocation on a store that holds tweets, profiles and
\* drafts.

MaxConnections == 2 \* connections opened before and by the invocation

\* Database.connect: a new sqlite3 connection, open.
Connect(by) == Append(connections, [opened_by |-> by, open |-> TRUE])

\* Database.close on connection db.
Close(conns, db) == [conns EXCEPT ![db].open = FALSE]

\* What prev keeps of an invocation: the connections it opened, the one its
\* Repository used, how it ended.
Request(surface, command, opened, used, exit) ==
    [op |-> "request", surface |-> surface, command |-> command,
     opened |-> opened, used |-> used, exit |-> exit]

ExitOf(raised) ==
    CASE raised = "" -> "success"
      [] raised \in {"ValueError", "ExtensionImportError"} -> "validation failure"
      [] OTHER -> "exception"

\* The files of the import command: two records, a record and a malformed
\* line.
CommandPaths ==
    {path \in Paths : path.lines \in {<<JsonLine(A1), JsonLine(A2)>>,
                                      <<JsonLine(A1), BadLine>>}}

DoImport ==
    /\ \E path \in CommandPaths : ImportFilePath(path)
    /\ UNCHANGED <<persona_versions, returned, generations, reviews, llm_calls>>

DoProfile == BuildPersona /\ UNCHANGED <<tweets, generations, reviews>>

DoGenerate ==
    GenerateTweets /\ UNCHANGED <<tweets, persona_versions, returned, reviews>>

DoReview ==
    ReviewDrafts /\ UNCHANGED <<tweets, persona_versions, returned, generations>>

\* A CLI command: get_db_and_repo (connect, then initialize, which may
\* raise out of the command before its try block), the operation inside
\* try, db.close() in finally.
CliCommand(command, Operation) ==
    /\ last.op = "none"
    /\ Len(connections) < MaxConnections
    /\ LET db == Len(connections) + 1
       IN \E initialized \in BOOLEAN :
            IF ~initialized
            THEN /\ connections' = Connect(command)
                 /\ last' = [op |-> "get_db_and_repo", raised |-> "OperationalError"]
                 /\ prev' = Request("cli", command, {db}, db, "initialization failure")
                 /\ UNCHANGED <<tweets, persona_versions, returned, generations,
                                reviews, llm_calls>>
            ELSE /\ Operation
                 /\ connections' = Close(Connect(command), db)
                 /\ prev' = Request("cli", command, {db}, db, ExitOf(last'.raised))
    /\ UNCHANGED <<file, pending, invocations, state>>

CliImportExtension == CliCommand("import extension", DoImport)
CliProfile == CliCommand("profile", DoProfile)
CliGenerateTweet == CliCommand("generate tweet", DoGenerate)
CliReview == CliCommand("review", DoReview)

\* lifespan before its yield: state = AppState(), whose __init__ connects
\* and initializes; when initialize raises the application does not start
\* and state keeps its value.
Startup ==
    /\ last.op = "none"
    /\ state = NoAppState
    /\ Len(connections) < MaxConnections
    /\ connections' = Connect("lifespan")
    /\ \E initialized \in BOOLEAN :
         state' = IF initialized
                  THEN [db |-> Len(connections) + 1, serving |-> TRUE]
                  ELSE NoAppState
    /\ UNCHANGED <<tweets, persona_versions, returned, generations, reviews,
                   llm_calls, file, pending, invocations, prev, last>>

\* An API handler: s = get_state(), the operation on s.repo.
ApiRequest(command, Operation) ==
    /\ last.op = "none"
    /\ state # NoAppState
    /\ state.serving
    /\ Operation
    /\ prev' = Request("api", command, {}, state.db, ExitOf(last'.raised))
    /\ UNCHANGED <<connections, file, pending, invocations, state>>

ApiImportExtension == ApiRequest("/import/extension", DoImport)
ApiBuildProfile == ApiRequest("/profile", DoProfile)
ApiGenerateTweets == ApiRequest("/generate/tweet", DoGenerate)
ApiReviewDrafts == ApiRequest("/review", DoReview)

\* lifespan after its yield: state.close().
Shutdown ==
    /\ state # NoAppState
    /\ state.serving
    /\ connections' = Close(connections, state.db)
    /\ state' = [state EXCEPT !.serving = FALSE]
    /\ UNCHANGED <<tweets, persona_versions, returned, generations, reviews,
                   llm_calls, file, pending, invocations, prev, last>>

NextConnection ==
    \/ last.op = "none" /\ InsertProfiled
    \/ last.op = "none" /\ SaveProfile
          /\ UNCHANGED <<tweets, generations, reviews, llm_calls, file, pending, invocations,
                         connections, state, prev>>
    \/ PreloadDraft
    \/ CliImportExtension
    \/ CliProfile
    \/ CliGenerateTweet
    \/ CliReview
    \/ Startup
    \/ ApiImportExtension
    \/ ApiBuildProfile
    \/ ApiGenerateTweets
    \/ ApiReviewDrafts
    \/ Shutdown

SpecConnection == InitImport /\ [][NextConnection]_vars

----------------------------------------------------------------------------
\* SpecReferences: the writers of persona_versions, generations and reviews
\* in any order: profiles saved, drafts saved under any version, reviews
\* saved for any draft id, drafts generated, drafts reviewed.

\* Repository.save_generation, called with a fresh default Draft under any
\* persona_version.
SaveDraft ==
    /\ Len(generations) < MaxDrafts
    /\ \E persona_version \in 1..MaxVersions :
         LET draft == Draft([id |-> Uuid(Len(generations) + 1), topic |-> "ai",
                             text |-> Str("hello"),
                             persona_version |-> persona_version])
             r == save_generation(generations, persona_versions, draft,
                                  "openai", "default", "hash")
         IN /\ generations' = r.rows
            /\ last' = [op |-> "save_generation", arg |-> draft,
                        before |-> generations, raised |-> r.raised, ret |-> r.ret]

\* No service has been called yet.
BeforeService == last.op \notin ServiceOps

NextReferences ==
    \/ BeforeService /\ Len(persona_versions) < MaxVersions - 1 /\ SaveProfile
          /\ UNCHANGED <<tweets, generations, reviews, llm_calls, file, pending, invocations,
                         connections, state, prev>>
    \/ BeforeService /\ SaveDraft
          /\ UNCHANGED <<tweets, persona_versions, returned, reviews, llm_calls,
                         file, pending, invocations, connections, state, prev>>
    \/ BeforeService /\ Len(reviews) < MaxReviews - 1 /\ SaveReview
          /\ UNCHANGED <<tweets, persona_versions, returned, generations,
                         llm_calls, file, pending, invocations, connections, state, prev>>
    \/ BeforeService /\ GenerateTweets
          /\ UNCHANGED <<tweets, persona_versions, returned, reviews, file, pending, invocations,
                         connections, state, prev>>
    \/ BeforeService /\ ReviewSingleDraft
          /\ UNCHANGED <<tweets, persona_versions, returned, generations, file, pending, invocations,
                         connections, state, prev>>

SpecReferences == InitImport /\ [][NextReferences]_vars

----------------------------------------------------------------------------
\* SpecPure: check_suppression_risk called again and again while other
\* operations change the store and call the provider.

\* A few texts of each risk level.
SampleTexts ==
    {<<>>, <<"this">>, <<"word", "?">>, <<"Like if", "who else">>,
     <<"hot take", "Like if", "f4f">>} \cap Texts

\* The tables and the provider's call count.
store == <<tweets, persona_versions, generations, reviews, llm_calls>>

\* How many rows and provider calls the other operations have made.
Size == Cardinality(tweets) + Len(persona_versions) + Len(generations) + llm_calls

\* ReviewerService.check_suppression_risk on a store in any state: the
\* method reads its argument only.
CheckAgain ==
    /\ \E text \in SampleTexts :
         last' = [op |-> "check_suppression_risk", arg |-> text, size |-> Size,
                  ret |-> check_suppression_risk(text)]
    /\ prev' = last
    /\ UNCHANGED <<tweets, persona_versions, returned, generations, llm_calls, file, pending, invocations, connections, state, reviews>>

\* The other operations: an insert into tweets, a saved profile, a saved
\* draft, a provider call.
OtherOperation ==
    /\ \/ /\ Cardinality(tweets) < MaxProfiled - 1
          /\ tweets' = import_extension_tweet(tweets,
                           [tweet_id |-> ToString(Cardinality(tweets) + 1),
                            created_at |-> T1, text |-> "omega", url |-> None]).rows
          /\ UNCHANGED <<persona_versions, returned, generations, llm_calls>>
       \/ /\ Len(persona_versions) < MaxVersions - 1
          /\ LET saved == save_persona(persona_versions,
                                       model_validate([display_name |-> "Bob"]))
             IN /\ persona_versions' = saved.rows
                /\ returned' = Append(returned, saved.ret)
          /\ UNCHANGED <<tweets, generations, llm_calls>>
       \/ /\ Len(generations) < MaxDrafts - 1
          /\ persona_versions # <<>>
          /\ generations' =
                save_generation(generations, persona_versions,
                    Draft([id |-> Uuid(Len(generations) + 1), topic |-> "ai",
                           text |-> Str("hello"), persona_version |-> 1]),
                    "openai", "default", "hash").rows
          /\ UNCHANGED <<tweets, persona_versions, returned, llm_calls>>
       \/ /\ llm_calls < MaxCalls - 2
          /\ llm_calls' = llm_calls + 1
          /\ UNCHANGED <<tweets, persona_versions, returned, generations>>
    /\ UNCHANGED <<file, pending, invocations, connections, state, reviews, prev, last>>

NextPure == CheckAgain \/ OtherOperation

SpecPure == InitImport /\ [][NextPure]_vars

----------------------------------------------------------------------------
\* What the claims count in a batch, stated from the batch and the table as
\* the call found it.

\* Record i of the batch has a non-empty identifier, timestamp and body.
ValidAt(batch, i) ==
    /\ Truthy(Get(batch[i], "tweet_id"))
    /\ Truthy(Get(batch[i], "created_at"))
    /\ Truthy(Get(batch[i], "text"))

\* Record i is valid and its identifier is stored already, or belongs to an
\* earlier valid record of the batch.
DuplicateAt(before, batch, i) ==
    /\ ValidAt(batch, i)
    /\ \/ \E r \in before : r.tweet_id = batch[i].tweet_id
       \/ \E j \in 1..(i - 1) : ValidAt(batch, j) /\ batch[j].tweet_id = batch[i].tweet_id

IsBatchCall == last.op = "import_extension_tweets_batch"
IsSingleCall == last.op = "import_extension_tweet"
IsFileCall(c) == c.op = "import_file"

\* C1 as stated: after two imports of the same file the second returns
\* inserted = 0 and a duplicate count equal to the first run's inserted count.
C1_SecondRunDuplicatesEqualFirstInserted ==
    (IsFileCall(prev) /\ IsFileCall(last)) =>
        /\ last.ret.imported = 0
        /\ last.ret.deduped = prev.ret.imported

\* C1 amended: after two imports of the same file the second returns
\* inserted = 0, the same invalid count, and a duplicate count equal to the
\* first run's inserted count plus the first run's duplicate count.
C1_SecondRunDuplicatesEqualFirstValid ==
    (IsFileCall(prev) /\ IsFileCall(last)) =>
        /\ ~last.ret.raised
        /\ last.ret.imported = 0
        /\ last.ret.skipped_invalid = prev.ret.skipped_invalid
        /\ last.ret.deduped = prev.ret.imported + prev.ret.deduped

\* A file that repeats an identifier has been imported twice.
C1_Witness ==
    /\ IsFileCall(prev) /\ IsFileCall(last)
    /\ prev.ret.imported >= 1
    /\ prev.ret.deduped >= 1
    /\ last.ret.deduped >= 2

\* C2: an identifier that is stored already, or that came earlier in the same
\* batch, is a duplicate: the call does not raise, reports it (False, or one
\* more in the duplicate count), and the row of that identifier keeps the
\* content of its first insertion; no stored row changes.
C2_DuplicateIsSkippedNotOverwritten ==
    /\ IsSingleCall =>
         /\ ~last.raised
         /\ last.before \subseteq tweets
         /\ Exists(last.before, last.arg.tweet_id) =>
                (last.ret = FALSE /\ tweets = last.before)
    /\ IsBatchCall =>
         /\ ~last.ret.raised
         /\ last.before \subseteq tweets
         /\ \A i \in 1..Len(last.arg) :
                (ValidAt(last.arg, i) /\ ~DuplicateAt(last.before, last.arg, i))
                    => Row(last.arg[i]) \in tweets
         /\ last.ret.deduped =
                Cardinality({i \in 1..Len(last.arg) :
                                DuplicateAt(last.before, last.arg, i)})

\* A batch repeated an identifier with another body, or a single insert hit
\* a stored identifier with another body.
C2_Witness ==
    \/ /\ IsBatchCall
       /\ \E i, j \in 1..Len(last.arg) :
            /\ j < i
            /\ DuplicateAt(last.before, last.arg, i)
            /\ ValidAt(last.arg, j)
            /\ last.arg[j].tweet_id = last.arg[i].tweet_id
            /\ last.arg[j].text # last.arg[i].text
            /\ ~DuplicateAt(last.before, last.arg, j)
    \/ /\ IsSingleCall
       /\ \E r \in last.before :
            r.tweet_id = last.arg.tweet_id /\ r.text # last.arg.text

\* C3: every record of a batch is counted once: invalid counts the records
\* with an empty identifier, timestamp or body, duplicate counts the valid
\* records whose identifier is present already, and the table grows by the
\* inserted count.
C3_BatchCountsPartitionTheInput ==
    IsBatchCall =>
        LET n == Len(last.arg)
            invalid == {i \in 1..n : ~ValidAt(last.arg, i)}
            duplicate == {i \in 1..n : DuplicateAt(last.before, last.arg, i)}
        IN /\ ~last.ret.raised
           /\ last.ret.imported + last.ret.skipped_invalid + last.ret.deduped = n
           /\ last.ret.skipped_invalid = Cardinality(invalid)
           /\ last.ret.deduped = Cardinality(duplicate)
           /\ Cardinality(tweets) = Cardinality(last.before) + last.ret.imported

\* Three records with two distinct identifiers on an empty table:
\* inserted = 2, invalid = 0, duplicate = 1, total = 2.
C3_Witness ==
    /\ IsBatchCall
    /\ last.before = {}
    /\ Len(last.arg) = 3
    /\ last.ret = [raised |-> FALSE, imported |-> 2, skipped_invalid |-> 0, deduped |-> 1]
    /\ Cardinality(tweets) = 2

IsSampleCall == last.op = "sample_tweets_for_profiling"

\* C7 as stated: the sampler returns exactly N records when N <= S and
\* exactly S records when N > S.
C7_SampleSizeIsExactlyS ==
    IsSampleCall =>
        Len(last.ret) = Min(Cardinality(tweets), last.sample_size)

\* C7 amended: the sampler returns distinct stored records, exactly N of them
\* when N <= S, and when N > S exactly S of them unless N = S + 1 and N is a
\* multiple of 3 (the last chunk then holds N/3 records, one fewer than the
\* remainder asked of it), in which case it returns S - 1.
C7_SampleSizeIsSUnlessLastChunkStarved ==
    IsSampleCall =>
        LET N == Cardinality(tweets)
            S == last.sample_size
        IN /\ Range(last.ret) \subseteq tweets
           /\ Cardinality(Range(last.ret)) = Len(last.ret)
           /\ Len(last.ret) =
                 IF N <= S THEN N
                 ELSE IF N = S + 1 /\ N % 3 = 0 THEN S - 1
                 ELSE S

\* The sampler has drawn from a table larger than the sample: once with the
\* last chunk starved, or once in full.
C7_Witness ==
    /\ IsSampleCall
    /\ Cardinality(tweets) > last.sample_size
    /\ Len(last.ret) = last.sample_size - 1

IsBuildCall == last.op = "build_persona"

\* The build did not return the stored persona: none was stored, or force.
ActuallyBuilds(c) == c.force \/ c.before = <<>>

\* C4: save_persona returns strictly increasing versions, none twice, and
\* get_latest_persona returns nothing on an empty table and otherwise the
\* content of the row with the largest version, its version set to the number
\* the store assigned, whatever version the saved payload carried.
C4_VersionsIncreaseAndLatestIsMax ==
    /\ \A i, j \in 1..Len(returned) : i < j => returned[i] < returned[j]
    /\ Range(returned) = {row.version : row \in Range(persona_versions)}
    /\ LET latest == get_latest_persona(persona_versions)
       IN IF persona_versions = <<>>
          THEN latest = NoPersona
          ELSE \E row \in Range(persona_versions) :
                  /\ \A v \in Range(returned) : v <= row.version
                  /\ latest.version = row.version
                  /\ latest.display_name = row.persona_json.display_name
                  /\ latest.sentence_length = row.persona_json.sentence_length

\* Two versions are stored and the latest payload carries a version of its
\* own that is not the one the store assigned.
C4_Witness ==
    /\ Len(returned) >= 2
    /\ persona_versions[Len(persona_versions)].persona_json.version
          # persona_versions[Len(persona_versions)].version

\* C5: build_persona with force = false on a table that holds a profile
\* returns the latest stored profile, makes no generate_json call and leaves
\* the stored versions as they were.
C5_ExistingProfileIsReturnedUntouched ==
    (IsBuildCall /\ ~last.force /\ last.before # <<>>) =>
        /\ last.raised = ""
        /\ last.ret = get_latest_persona(last.before)
        /\ last.ret.version = last.before[Len(last.before)].version
        /\ llm_calls = last.calls_before
        /\ persona_versions = last.before

\* A build with force = false found two stored versions.
C5_Witness ==
    /\ IsBuildCall /\ ~last.force
    /\ Len(last.before) >= 2
    /\ last.ret.version = 2

----------------------------------------------------------------------------
IsSaveCall == last.op = "save_generation" /\ last.raised = ""

\* C8: a Draft that save_generation stored is read back equal to itself, in
\* its full shape (the algorithm-alignment bundle and the reply fields
\* included), by get_generation_by_id and in every list
\* get_recent_generations may return for a limit that covers the table.
C8_SavedDraftReadsBackEqual ==
    IsSaveCall =>
        /\ get_generation_by_id(generations, last.ret) = last.arg
        /\ \A recent \in get_recent_generations(generations, MaxDrafts) :
              \E i \in 1..Len(recent) : recent[i] = last.arg

----------------------------------------------------------------------------
\* A generate_thread call that got a response from the provider.
IsThreadCall == last.op = "generate_thread" /\ last.raised = ""

\* The items of the response's thread list, and its recommended count.
ParsedItems(c) == GetOr(c.result, "thread", <<>>)

Recommends(c) == "recommended_tweet_count" \in DOMAIN c.result

\* The call returned the drafts of the first n parsed items, in order, and
\* appended exactly those to the generations table.
KeptFirst(c, n) ==
    /\ Len(c.ret) = n
    /\ \A i \in 1..n : c.ret[i].text = Str(ParsedItems(c)[i].text)
    /\ Len(generations) = Len(c.before) + n
    /\ SubSeq(generations, 1, Len(c.before)) = c.before
    /\ \A i \in 1..n :
          get_generation_by_id(generations, c.ret[i].id).text = c.ret[i].text
    /\ \A i \in 1..n : generations[Len(c.before) + i].id = c.ret[i].id

\* C9 as stated: with a recommended count r smaller than the number p of
\* parsed items the first r drafts are returned and persisted, otherwise
\* exactly p; never more than p.
C9_ThreadKeepsRecommendedElseAll ==
    IsThreadCall =>
        LET p == Len(ParsedItems(last))
        IN /\ IF Recommends(last) /\ last.result.recommended_tweet_count < p
              THEN KeptFirst(last, last.result.recommended_tweet_count)
              ELSE KeptFirst(last, p)
           /\ Len(generations) - Len(last.before) <= p

\* C9 amended: the cap is the response's recommended count when it gives
\* one and the requested tweet_count when it gives none; the first
\* min(p, cap) drafts are returned and persisted, in order; never more than p.
C9_ThreadKeepsUpToRecommendedOrRequested ==
    IsThreadCall =>
        LET p == Len(ParsedItems(last))
            cap == IF Recommends(last) THEN last.result.recommended_tweet_count
                   ELSE last.tweet_count
        IN /\ KeptFirst(last, IF cap < p THEN cap ELSE p)
           /\ Len(generations) - Len(last.before) <= p

\* Eight parsed items with a recommended count of five, appended to a table
\* that held a draft already: five drafts persisted.
C9_Witness ==
    /\ IsThreadCall
    /\ Len(ParsedItems(last)) = 8
    /\ Recommends(last) /\ last.result.recommended_tweet_count = 5
    /\ Len(last.before) = 1
    /\ Len(generations) = 6

----------------------------------------------------------------------------
IsRiskCall == last.op = "check_suppression_risk"

\* The question-related tags of a result (a question pattern, the closing
\* question mark, several question marks) and its other tags, counted.
QuestionTags(ret) ==
    Cardinality({i \in 1..Len(ret.patterns_found) :
        ret.patterns_found[i][1] \in
            {"question_pattern", "ends_with_question", "multiple_questions"}})

OtherTags(ret) == Len(ret.patterns_found) - QuestionTags(ret)

\* C10: with at least one question-related tag the risk is high when there
\* is more than one of them or at least one other tag, else medium; with
\* none the risk is low for no other tag, medium for one or two, high for
\* three or more; the recommendation is "review" exactly when the risk is
\* not low, else "ok".
C10_RiskResolvedFromTags ==
    IsRiskCall =>
        LET q == QuestionTags(last.ret)
            o == OtherTags(last.ret)
        IN /\ q >= 1 /\ (q > 1 \/ o >= 1) => last.ret.risk_level = "high"
           /\ q = 1 /\ o = 0 => last.ret.risk_level = "medium"
           /\ q = 0 /\ o = 0 => last.ret.risk_level = "low"
           /\ q = 0 /\ o \in 1..2 => last.ret.risk_level = "medium"
           /\ q = 0 /\ o >= 3 => last.ret.risk_level = "high"
           /\ last.ret.risk_level \in {"low", "medium", "high"}
           /\ last.ret.recommendation =
                 IF last.ret.risk_level # "low" THEN "review" ELSE "ok"

\* One question-related tag and one other tag: the risk is high although
\* two tags without a question among them would be medium.
C10_Witness ==
    /\ IsRiskCall
    /\ QuestionTags(last.ret) = 1
    /\ OtherTags(last.ret) = 1
    /\ last.ret.risk_level = "high"
    /\ last.ret.recommendation = "review"

----------------------------------------------------------------------------
\* The last two calls were check_suppression_risk calls.
TwoRiskCalls ==
    prev.op = "check_suppression_risk" /\ last.op = "check_suppression_risk"

----------------------------------------------------------------------------
\* The text ends in its only "?", matches no engagement-bait, question or
\* opinion-label pattern, and holds at most three "#" and three "@".
LoneClosingQuestion(text) ==
    /\ text # <<>> /\ text[Len(text)] = "?"
    /\ Count(text, "?") = 1
    /\ \A i \in 1..Len(engagement_bait) : ~Contains(text, engagement_bait[i])
    /\ \A i \in 1..Len(question_patterns) : ~Contains(text, question_patterns[i])
    /\ \A i \in 1..Len(opinion_labels) : ~Opens(text, opinion_labels[i])
    /\ Count(text, "#") <= 3
    /\ Count(text, "@") <= 3

\* C12: for a text that ends in exactly one "?", matches no question-style,
\* engagement-bait or opinion-label pattern and has at most 3 "#" and 3 "@",
\* check_suppression_risk yields the one tag ends_with_question, no other
\* tag, and risk medium.
C12_LoneQuestionMarkIsMedium ==
    (IsRiskCall /\ LoneClosingQuestion(last.arg)) =>
        /\ last.ret.patterns_found = <<<<"ends_with_question", "">>>>
        /\ QuestionTags(last.ret) = 1
        /\ OtherTags(last.ret) = 0
        /\ last.ret.risk_level = "medium"

\* Three hashtags, three mentions and a closing question mark.
C12_Witness ==
    /\ IsRiskCall
    /\ last.arg = <<"#a #b #c", "@a @b @c", "?">>
    /\ last.ret.risk_level = "medium"

----------------------------------------------------------------------------
\* The step is a call of a service.
ServiceCallStep == last.op = "none" /\ last'.op \in ServiceOps

\* The call raised ValueError, made no generate_json call and left every
\* table as it was.
AbortedUntouched ==
    /\ last'.raised = "ValueError"
    /\ store' = store
    /\ returned' = returned

\* C13 as stated: the generators and the reviewer with no stored profile,
\* and build_persona with no stored record, raise ValueError, make no
\* generate_json call and leave every table unchanged.
C13_PreconditionFailureAborts ==
    [][(/\ ServiceCallStep
        /\ IF last'.op = "build_persona" THEN tweets = {}
           ELSE persona_versions = <<>>) => AbortedUntouched]_vars

\* C13 amended: the same, where build_persona is called with no stored
\* record and either force = true or no stored profile (with a stored profile
\* and force = false it returns that profile, as C5 says).
C13_PreconditionFailureAbortsUnlessProfileReused ==
    [][(/\ ServiceCallStep
        /\ IF last'.op = "build_persona"
           THEN tweets = {} /\ (last'.force \/ persona_versions = <<>>)
           ELSE persona_versions = <<>>) => AbortedUntouched]_vars

\* A forced build on a store that holds profiles but no record raised; so
\* did a review on a store without a profile.
C13_Witness ==
    \/ /\ last.op = "build_persona" /\ last.force
       /\ tweets = {} /\ persona_versions # <<>>
       /\ last.raised = "ValueError" /\ llm_calls = 0
    \/ /\ last.op = "review_drafts"
       /\ persona_versions = <<>>
       /\ last.raised = "ValueError" /\ llm_calls = 0

----------------------------------------------------------------------------
GeneratorOps == {"generate_tweets", "generate_thread", "generate_replies"}

\* The key under which the operation reads its list of items.
ListKey(op) ==
    CASE op = "generate_tweets" -> "drafts"
      [] op = "generate_thread" -> "thread"
      [] op = "generate_replies" -> "replies"

\* generate_json returned to the generator (it was called and did not raise).
ProviderAnswered ==
    /\ last.op \in GeneratorOps
    /\ llm_calls = last.calls_before + 1
    /\ last.raised # "ProviderError"

ErrorTagged(result) == IsDict(result) /\ "error" \in DOMAIN result

StructurallyInvalid(result, key) ==
    \/ ~IsDict(result)
    \/ key \notin DOMAIN result
    \/ \E i \in 1..Len(result[key]) : ~IsDict(result[key][i])

\* C14: on an error-tagged or structurally invalid generate_json result
\* (no list key, an array or scalar instead of an object, items that are not
\* objects) the three generators return an empty list and persist no draft,
\* without raising.
C14_InvalidResultGivesNoDrafts ==
    (/\ ProviderAnswered
     /\ \/ ErrorTagged(last.result)
        \/ StructurallyInvalid(last.result, ListKey(last.op)))
    => /\ last.raised = ""
       /\ last.ret = <<>>
       /\ generations = last.before

\* What holds of the code: an object that is error-tagged or lacks the list
\* key gives an empty list; no draft is persisted in any of the cases.
C14_ObjectWithoutListGivesNoDrafts ==
    /\ (/\ ProviderAnswered
        /\ IsDict(last.result)
        /\ ListKey(last.op) \notin DOMAIN last.result)
       => /\ last.raised = "" /\ last.ret = <<>> /\ generations = last.before
    /\ (/\ ProviderAnswered
        /\ StructurallyInvalid(last.result, ListKey(last.op)))
       => generations = last.before

----------------------------------------------------------------------------
\* The generate_json calls the review made.
ReviewCallsMade == llm_calls - last.calls_before

\* The answers of a review that were error-tagged objects.
ErrorTaggedAnswers ==
    {i \in 1..ReviewCallsMade :
        /\ ~last.outcomes[i].raises
        /\ ErrorTagged(last.outcomes[i].result)}

\* C15: on an error-tagged generate_json result build_persona stores no new
\* profile version, and review_drafts / review_single_draft store no review
\* for that response (the reviews stored are at most one for each answer
\* that was not error-tagged).
C15_ErrorTaggedResultStoresNothing ==
    /\ (/\ last.op = "build_persona"
        /\ llm_calls = last.calls_before + 1
        /\ ~last.outcome.raises
        /\ ErrorTagged(last.outcome.result))
       => persona_versions = last.before
    /\ last.op \in {"review_drafts", "review_single_draft"}
       => Len(reviews) - Len(last.before)
              <= ReviewCallsMade - Cardinality(ErrorTaggedAnswers)

----------------------------------------------------------------------------
\* The file holds a JSON array, or an object wrapping a "tweets" array.
IsArrayOrWrapper(path) ==
    /\ path.document.ok
    /\ \/ ~IsDict(path.document.value) /\ path.document.value.pytype = "list"
       \/ IsDict(path.document.value) /\ "tweets" \in DOMAIN path.document.value

\* The objects of such a document.
DocumentObjects(path) ==
    IF IsDict(path.document.value) THEN path.document.value.tweets
    ELSE path.document.value.items

\* C16: import_file on a file that holds a JSON array of objects, or an
\* object wrapping a "tweets" array, does not fail and imports the records
\* of the document, normalized, like a batch import of them (line-delimited
\* parsing first, whole-document parsing when a line fails to parse).
C16_ArrayOrWrapperFileIsImported ==
    (last.op = "import_file" /\ IsArrayOrWrapper(last.arg))
    => LET r == import_extension_tweets_batch(last.before,
                    NormalizeDicts(DocumentObjects(last.arg)))
       IN /\ last.raised = ""
          /\ last.ret = Counts(r)
          /\ tweets = r.rows

----------------------------------------------------------------------------
\* The number of the first line that is not JSON, 0 when every line is.
FirstMalformed(lines) ==
    IF \E i \in 1..Len(lines) : lines[i].text = "malformed"
    THEN CHOOSE i \in 1..Len(lines) :
            /\ lines[i].text = "malformed"
            /\ \A j \in 1..(i - 1) : lines[j].text # "malformed"
    ELSE 0

\* import_file was given a line-delimited file with a malformed line (not
\* a document printed over several lines).
MalformedLineFile ==
    /\ last.op = "import_file"
    /\ ~last.arg.document.ok
    /\ FirstMalformed(last.arg.lines) > 0

----------------------------------------------------------------------------
\* An invocation has ended.
RequestEnded == prev.op = "request"

\* The connections that are open.
OpenConnections == {db \in 1..Len(connections) : connections[db].open}

\* C18: every operation, CLI command or API handler, acquires the
\* connection for its own invocation, and that connection is closed when the
\* operation has ended, however it ended (success, validation failure,
\* exception, failure of the schema initialization).
C18_ConnectionClosedWhenOperationEnds ==
    RequestEnded
    => /\ prev.used \in prev.opened
       /\ prev.opened \cap OpenConnections = {}

\* What holds of the CLI: once get_db_and_repo has returned, the command's
\* connection is its own and is closed on every exit of the try block.
C18_CliClosesAfterInitialization ==
    (/\ RequestEnded
     /\ prev.surface = "cli"
     /\ prev.exit # "initialization failure")
    => /\ prev.used \in prev.opened
       /\ prev.opened \cap OpenConnections = {}

----------------------------------------------------------------------------
\* The rows generate_tweets appended.
GeneratedRows == SubSeq(generations, Len(last.before) + 1, Len(generations))

\* C19: in every reachable state each stored draft's persona_version is the
\* version of a stored profile, each stored review's draft id is the id of a
\* stored draft, and the drafts a generator stored carry the latest version
\* of the time of the call.
C19_ReferencesResolve ==
    /\ \A g \in Range(generations) :
          \E v \in Range(persona_versions) : v.version = g.persona_version
    /\ \A r \in Range(reviews) :
          \E g \in Range(generations) : g.id = r.generation_id
    /\ last.op = "generate_tweets"
       => \A g \in Range(GeneratedRows) : g.persona_version = last.latest.version

\* Drafts are stored under two versions, one of them by generate_tweets
\* under the latest, and a review is stored.
C19_Witness ==
    /\ last.op = "generate_tweets"
    /\ GeneratedRows # <<>>
    /\ last.latest.version = 2
    /\ last.before # <<>> /\ last.before[1].persona_version = 1
    /\ reviews # <<>>

----------------------------------------------------------------------------
DraftIds == {Uuid(n) : n \in 1..(MaxDrafts + 1)}

\* C20: save_review only appends: a save_review call that returns leaves
\* every earlier row as it was, and get_reviews_for_generation returns one
\* review more for the draft of the call (the one saved among them) and as
\* many as before, the same ones, for any other draft; so k calls for a
\* draft give k reviews, identical content or not.
C20_SaveReviewAppends ==
    [][(last'.op = "save_review" /\ last'.raised = "")
       => /\ SubSeq(reviews', 1, Len(reviews)) = reviews
          /\ Len(reviews') = Len(reviews) + 1
          /\ \A d \in DraftIds :
               \A before \in get_reviews_for_generation(reviews, d),
                  after \in get_reviews_for_generation(reviews', d) :
                 /\ Len(after) = Len(before)
                                 + (IF d = last'.arg.draft_id THEN 1 ELSE 0)
                 /\ \A r \in Range(before) :
                      Cardinality({i \in 1..Len(after) : after[i] = r})
                        = Cardinality({i \in 1..Len(before) : before[i] = r})
                          + (IF /\ d = last'.arg.draft_id
                                /\ r = ReviewOfRow(reviews'[Len(reviews')])
                             THEN 1 ELSE 0)
                 /\ d = last'.arg.draft_id
                    => \E i \in 1..Len(after) :
                          after[i] = ReviewOfRow(reviews'[Len(reviews')])]_vars

\* Two save_review calls with identical content for one draft: two reviews
\* are read for it.
C20_Witness ==
    /\ last.op = "save_review" /\ last.raised = ""
    /\ Len(reviews) = 2
    /\ reviews[1].generation_id = reviews[2].generation_id
    /\ reviews[1].alignment_score = reviews[2].alignment_score
    /\ \A read \in get_reviews_for_generation(reviews, last.arg.draft_id) :
          Len(read) = 2


----------------------------------------------------------------------------
\* SpecAppendOnly: imports, profile builds, generation and review in any
\* order, until a service has been called: single inserts and batches,
\* profiles saved and built, drafts saved and generated, drafts reviewed.

MaxAppended == 4   \* rows of tweets, persona_versions and generations together

\* The rows stored so far.
Appended == Cardinality(tweets) + Len(persona_versions) + Len(generations)

\* No service has been called and the tables may still grow.
MayAppend == BeforeService /\ Appended < MaxAppended

NextAppendOnly ==
    \/ MayAppend /\ ImportExtensionTweet
          /\ UNCHANGED <<persona_versions, returned, generations, reviews,
                         llm_calls, file, pending, invocations, connections, state, prev>>
    \/ MayAppend
          /\ (\E batch \in SeqsUpTo(BatchTweets, MaxBatchLen - 1) : ImportBatch(batch))
          /\ UNCHANGED <<persona_versions, returned, generations, reviews,
                         llm_calls, file, pending, invocations, connections, state, prev>>
    \/ MayAppend /\ SavePersona
          /\ UNCHANGED <<tweets, generations, reviews, llm_calls, file, pending, invocations,
                         connections, state, prev>>
    \/ MayAppend /\ BuildPersona
          /\ UNCHANGED <<tweets, generations, reviews, file, pending, invocations, connections,
                         state, prev>>
    \/ MayAppend /\ SaveDraft
          /\ UNCHANGED <<tweets, persona_versions, returned, reviews, llm_calls,
                         file, pending, invocations, connections, state, prev>>
    \/ MayAppend /\ GenerateTweets
          /\ UNCHANGED <<tweets, persona_versions, returned, reviews, file, pending, invocations,
                         connections, state, prev>>
    \/ MayAppend /\ ReviewSingleDraft
          /\ UNCHANGED <<tweets, persona_versions, returned, generations, file, pending, invocations,
                         connections, state, prev>>

SpecAppendOnly == InitImport /\ [][NextAppendOnly]_vars

\* The call was a save_persona that stored a row: Repository.save_persona
\* itself, or the one build_persona makes.
SavedPersona ==
    \/ last'.op = "save_persona"
    \/ last'.op = "build_persona" /\ Len(persona_versions') > Len(persona_versions)

\* C21: the store is append-only for tweets and persona versions.  Over any
\* step of import, profile build, generation and review, every row of the
\* tweets table stays as it was, a row an import reports as inserted holds
\* the content handed in, every version save_persona has returned reads back
\* through get_persona_by_version as it did before the step, and the version
\* a save_persona returns in the step reads back as the persona that
\* was saved, under the version returned.
C21_StoreIsAppendOnly ==
    [][ /\ \A row \in tweets : row \in tweets'
        /\ (last'.op = "import_extension_tweet" /\ last'.ret = TRUE)
               => Row(last'.arg) \in tweets'
        /\ \A i \in 1..Len(returned) :
               /\ get_persona_by_version(persona_versions, returned[i]) # NoPersona
               /\ get_persona_by_version(persona_versions', returned[i])
                    = get_persona_by_version(persona_versions, returned[i])
        /\ SavedPersona =>
               LET version == returned'[Len(returned')]
                   saved == persona_versions'[Len(persona_versions')].persona_json
               IN /\ Len(returned') = Len(returned) + 1
                  /\ last'.op = "save_persona" => saved = last'.arg /\ last'.ret = version
                  /\ get_persona_by_version(persona_versions', version)
                       = [saved EXCEPT !.version = version]
      ]_vars

\* Two profile versions are stored and the last call refused to insert a
\* record whose identifier is stored with another body.
C21_Witness ==
    /\ Len(returned) >= 2
    /\ get_persona_by_version(persona_versions, returned[1])
         # get_persona_by_version(persona_versions, returned[2])
    /\ last.op = "import_extension_tweet"
    /\ last.ret = FALSE
    /\ \E row \in tweets : row.tweet_id = last.arg.tweet_id /\ row.text # last.arg.text


----------------------------------------------------------------------------
\* SpecInterleaved: two `import extension` commands run side by side, each
\* in its own process on its own connection, one statement at a time.
\* tweets holds the committed rows, pending[c] the rows connection c has
\* inserted in its open transaction.

MaxInterleaved == 2   \* records in the batch of an import that runs beside another

\* The dicts invocation c imports: the identifiers are those of the other
\* invocation, the body is its own; the empty identifier is invalid.
TweetOf(c, tweet_id) ==
    [tweet_id |-> tweet_id, created_at |-> T1,
     text |-> IF c = 1 THEN "alpha" ELSE "beta", url |-> None]

InterleavedBatches(c) ==
    SeqsUpTo({TweetOf(c, i) : i \in TweetIds \cup {""}}, MaxInterleaved) \ {<<>>}

\* What a statement on connection c reads: the committed rows and the rows
\* of its own open transaction.
View(c) == tweets \cup pending[c]

\* Another connection holds the write lock: it has inserted and not yet
\* committed.
WriteLocked(c) == \E o \in Connections \ {c} : pending[o] # {}

\* Another invocation is in its loop.
Running(c) == \E o \in Connections \ {c} : invocations[o].pc \in {"loop", "insert"}

\* The record the loop of invocation c stands at.
Current(c) == invocations[c].batch[invocations[c].k]

\* Both invocations have found the same identifier absent and stand before
\* their INSERT of it.
Collides(c, t) ==
    \E o \in Connections \ {c} :
        /\ invocations[o].pc = "insert"
        /\ Current(o).tweet_id = t.tweet_id

\* import_file hands the batch read from the file to
\* import_extension_tweets_batch (an empty file returns before the call).
Invoke(c) ==
    /\ invocations[c].pc = "none"
    /\ \E batch \in InterleavedBatches(c) :
         invocations' = [invocations EXCEPT ![c] =
             [pc |-> "loop", batch |-> batch, k |-> 1, imported |-> 0,
              skipped_invalid |-> 0, deduped |-> 0, raised |-> None,
              outcomes |-> <<>>, collided |-> 0, overlapped |-> FALSE]]
    /\ UNCHANGED <<tweets, pending>>

\* The head of one iteration: the validation and the SELECT.
SelectStep(c) ==
    LET inv == invocations[c]
    IN /\ inv.pc = "loop"
       /\ inv.k <= Len(inv.batch)
       /\ LET t == inv.batch[inv.k]
          IN invocations' =
               IF Invalid(t)
               THEN [invocations EXCEPT ![c].skipped_invalid = @ + 1, ![c].k = @ + 1,
                                        ![c].outcomes = Append(@, "invalid")]
               ELSE IF Exists(View(c), t.tweet_id)
               THEN [invocations EXCEPT ![c].deduped = @ + 1, ![c].k = @ + 1,
                                        ![c].outcomes = Append(@, "duplicate")]
               ELSE [o \in Connections |->
                        IF o = c
                        THEN [inv EXCEPT !.pc = "insert",
                                         !.collided = IF Collides(c, t) THEN inv.k ELSE @]
                        ELSE IF Collides(c, t) /\ invocations[o].pc = "insert"
                                 /\ Current(o).tweet_id = t.tweet_id
                        THEN [invocations[o] EXCEPT !.collided = invocations[o].k]
                        ELSE invocations[o]]
       /\ UNCHANGED <<tweets, pending>>

\* The INSERT of one iteration.  While another connection holds the write
\* lock the statement waits (the step is not taken) or gives up after the
\* connection's timeout with sqlite3.OperationalError; a constraint that
\* fails raises sqlite3.IntegrityError.  Nothing catches either.
InsertStep(c) ==
    LET inv == invocations[c]
    IN /\ inv.pc = "insert"
       /\ IF WriteLocked(c)
          THEN /\ invocations' = [invocations EXCEPT ![c].pc = "raised",
                                      ![c].raised = "OperationalError"]
               /\ UNCHANGED pending
          ELSE LET ins == Insert(View(c), Row(Current(c)))
               IN IF ins.ok
                  THEN /\ pending' = [pending EXCEPT ![c] = @ \cup {Row(Current(c))}]
                       /\ invocations' = [invocations EXCEPT ![c].pc = "loop",
                              ![c].imported = @ + 1, ![c].k = @ + 1,
                              ![c].outcomes = Append(@, "inserted"),
                              ![c].overlapped = @ \/ Running(c)]
                  ELSE /\ invocations' = [invocations EXCEPT ![c].pc = "raised",
                                              ![c].raised = "IntegrityError"]
                       /\ UNCHANGED pending
       /\ UNCHANGED tweets

CommitStepForgotten(c) ==
    /\ invocations[c].pc = "loop"
    /\ invocations[c].k > Len(invocations[c].batch)
    /\ invocations' = [invocations EXCEPT ![c].pc = "returned"]
    /\ UNCHANGED <<tweets, pending>>

\* conn.commit() after the loop, and the return of the counts.
CommitStep(c) ==
    LET inv == invocations[c]
    IN /\ inv.pc = "loop"
       /\ inv.k > Len(inv.batch)
       /\ tweets' = tweets \cup pending[c]
       /\ pending' = [pending EXCEPT ![c] = {}]
       /\ invocations' = [invocations EXCEPT ![c].pc = "returned"]

\* The command ends, by its return or by the exception: db.close() drops
\* what the connection has not committed.
CloseStep(c) ==
    /\ invocations[c].pc \in {"returned", "raised"}
    /\ pending' = [pending EXCEPT ![c] = {}]
    /\ invocations' = [invocations EXCEPT ![c].pc = "closed"]
    /\ UNCHANGED tweets

NextInterleaved ==
    \E c \in Connections :
        /\ \/ Invoke(c)
           \/ SelectStep(c)
           \/ InsertStep(c)
           \/ CommitStep(c)
           \/ CloseStep(c)
        /\ UNCHANGED <<persona_versions, returned, generations, reviews,
                       llm_calls, file, connections, state, prev, last>>

SpecInterleaved == InitImport /\ [][NextInterleaved]_vars

\* Both commands have ended.
BothClosed == \A c \in Connections : invocations[c].pc = "closed"

\* Both invocations stood before the INSERT of one identifier at once.
Collided == \A c \in Connections : invocations[c].pc # "none" /\ invocations[c].collided # 0

\* The record invocation c collided on, and what it reported for it.
CollidedOn(c) == invocations[c].batch[invocations[c].collided]

OutcomeOf(c) ==
    IF invocations[c].collided <= Len(invocations[c].outcomes)
    THEN invocations[c].outcomes[invocations[c].collided]
    ELSE "none"

StoredWith(tweet_id) == {row \in tweets : row.tweet_id = tweet_id}

\* C22 as stated: when two import invocations have both run their existence
\* check on one identifier before either inserted it, neither raises, one
\* reports the record inserted and the other duplicate, and the store
\* holds exactly one record with the identifier.
C22_InterleavedDuplicateIsSilentSkip ==
    (BothClosed /\ Collided) =>
        /\ \A c \in Connections : invocations[c].raised = None
        /\ {OutcomeOf(c) : c \in Connections} = {"inserted", "duplicate"}
        /\ Cardinality(StoredWith(CollidedOn(1).tweet_id)) = 1

\* C22: a record whose identifier the existence check finds is counted as
\* a duplicate and raises nothing; when two import invocations have both
\* run the check on one identifier before either inserted it, the one whose
\* INSERT comes second raises (IntegrityError from the primary key, or
\* OperationalError when its wait for the write lock times out) and leaves
\* no row of its own in the store, the other returns and reports the
\* record inserted, and the store holds exactly one record with the
\* identifier, that of the invocation that returned.
C22_InterleavedDuplicateRaisesInSecondInserter ==
    /\ \A c \in Connections :
          (invocations[c].pc # "none" /\ invocations[c].raised = None) =>
              \A k \in 1..Len(invocations[c].outcomes) :
                  invocations[c].outcomes[k] = "duplicate"
                      => Exists(View(c), invocations[c].batch[k].tweet_id)
    /\ (BothClosed /\ Collided) =>
          \E c \in Connections : \E o \in Connections \ {c} :
              /\ invocations[c].raised \in {"IntegrityError", "OperationalError"}
              /\ OutcomeOf(c) = "none"
              /\ ~\E row \in tweets : row.text = TweetOf(c, "1").text
              /\ invocations[o].raised = None
              /\ OutcomeOf(o) = "inserted"
              /\ StoredWith(CollidedOn(c).tweet_id) = {Row(CollidedOn(o))}

\* Both have ended after a collision on one identifier, and the second
\* INSERT failed on the primary key.
C22_Witness ==
    /\ BothClosed
    /\ Collided
    /\ \E c \in Connections : invocations[c].raised = "IntegrityError"
    /\ Cardinality(tweets) = 2

\* The valid records of the batch of invocation c, and their identifiers.
ValidRecords(c) == {t \in Range(invocations[c].batch) : ~Invalid(t)}

ValidIds(c) == {t.tweet_id : t \in ValidRecords(c)}

\* Both invocations have a batch, no batch names a valid identifier twice,
\* and no valid identifier is in both.
Disjoint ==
    /\ \A c \in Connections : invocations[c].pc # "none"
    /\ \A c \in Connections : \A j, k \in 1..Len(invocations[c].batch) :
          (j # k /\ ~Invalid(invocations[c].batch[j]))
              => invocations[c].batch[j].tweet_id # invocations[c].batch[k].tweet_id
    /\ ValidIds(1) \cap ValidIds(2) = {}

\* Invocation c returned and reported each of its valid records inserted.
AllInserted(c) ==
    /\ invocations[c].raised = None
    /\ invocations[c].imported = Cardinality(ValidRecords(c))
    /\ \A k \in 1..Len(invocations[c].batch) :
          ~Invalid(invocations[c].batch[k]) => invocations[c].outcomes[k] = "inserted"

\* C23 as stated: two import invocations with disjoint identifier sets,
\* interleaved in any order, both complete without error, each reports each
\* of its valid records inserted, and the store ends with the union of
\* both record sets.
C23_DisjointImportsBothComplete ==
    (BothClosed /\ Disjoint) =>
        /\ \A c \in Connections : AllInserted(c)
        /\ tweets = {Row(t) : t \in ValidRecords(1) \cup ValidRecords(2)}

\* C23: two import invocations with disjoint identifier sets, interleaved
\* in any order, both complete without error unless one of them waits for
\* the write lock the other holds beyond its connection's timeout; that one
\* raises OperationalError and stores nothing, at most one does, every
\* invocation that returns reports each of its valid records inserted, and
\* the store ends with the union of the record sets of the invocations that
\* returned.
C23_DisjointImportsCompleteUnlessLockWaitTimesOut ==
    (BothClosed /\ Disjoint) =>
        /\ \A c \in Connections : invocations[c].raised \in {None, "OperationalError"}
        /\ \E c \in Connections : invocations[c].raised = None
        /\ \A c \in Connections : invocations[c].raised = None => AllInserted(c)
        /\ tweets = UNION {{Row(t) : t \in ValidRecords(c)} :
                              c \in {o \in Connections : invocations[o].raised = None}}

\* Both have ended without an error, one inserted its record while the
\* other was in its loop, and both records are stored.
C23_Witness ==
    /\ BothClosed
    /\ Disjoint
    /\ \A c \in Connections : invocations[c].imported = 1 /\ invocations[c].raised = None
    /\ \E c \in Connections : invocations[c].overlapped
    /\ Cardinality(tweets) = 2

----------------------------------------------------------------------------
\* providers/local.py, providers/openai.py: generate_json.  A response text
\* is a sequence of segments: a JSON object, a JSON array, prose without
\* braces, the opening fence of a json code block, a bare fence, and prose
\* that holds an opening brace.

MaxResponse == 3   \* segments of a backend's response text

Segments == {"obj", "arr", "prose", "fence_json", "fence", "{"}

Responses == SeqsUpTo(Segments, MaxResponse)

\* The segments that are the text of one JSON value ("stub" is the persona
\* the local stub dumps, "{}" the default of an empty cloud content), those
\* that hold an opening brace and those that hold a closing one.
JsonSegments == {"obj", "arr", "stub", "{}"}
Opening == {"obj", "stub", "{}", "{"}
Closing == {"obj", "stub", "{}"}

SegmentValue(segment) ==
    CASE segment = "obj" -> [a |-> 1]
      [] segment = "stub" -> [display_name |-> "Local Stub Persona"]
      [] segment = "{}" -> <<>>
      [] OTHER -> JsonList(<<1, 2>>)

\* json.loads: the value when the text is one JSON value, JSONDecodeError
\* (ok = FALSE) for anything else.
json_loads(text) ==
    IF Len(text) = 1 /\ text[1] \in JsonSegments
    THEN [ok |-> TRUE, value |-> SegmentValue(text[1])]
    ELSE [ok |-> FALSE, value |-> NotADict("NoneType")]

\* str.find and str.rfind on segments: the index of the first segment of S
\* from a position on, of the last one, 0 when there is none.
Find(text, S, from) ==
    IF \E i \in from..Len(text) : text[i] \in S
    THEN CHOOSE i \in from..Len(text) :
             text[i] \in S /\ \A j \in from..(i - 1) : text[j] \notin S
    ELSE 0

RFind(text, S) ==
    IF \E i \in 1..Len(text) : text[i] \in S
    THEN CHOOSE i \in 1..Len(text) :
             text[i] \in S /\ \A j \in (i + 1)..Len(text) : text[j] \notin S
    ELSE 0

ErrorObject(text) == [error |-> "Failed to parse JSON", raw |-> text]

\* LocalProvider._parse_json_response: the whole text, then what stands
\* between the json fence and the next fence, then what stands between the first
\* opening and the last closing brace, then the error object.
parse_json_response(response) ==
    LET whole == json_loads(response)
        fence == Find(response, {"fence_json"}, 1)
        closing == IF fence = 0 THEN 0 ELSE Find(response, {"fence", "fence_json"}, fence + 1)
        fenced == IF fence # 0 /\ closing # 0
                  THEN json_loads(SubSeq(response, fence + 1, closing - 1))
                  ELSE json_loads(<<>>)
        start == Find(response, Opening, 1)
        end == RFind(response, Closing)
        braced == IF start # 0 /\ end >= start
                  THEN json_loads(SubSeq(response, start, end))
                  ELSE json_loads(<<>>)
    IN IF whole.ok THEN whole.value
       ELSE IF fenced.ok THEN fenced.value
       ELSE IF braced.ok THEN braced.value
       ELSE ErrorObject(response)

\* What the backend does with a request: the connection fails, the server
\* answers with an error status, or it answers with a text.
BackendOutcomes ==
    {[kind |-> "ConnectError"], [kind |-> "HTTPStatusError"]}
        \cup {[kind |-> "content", text |-> text] : text \in Responses}

\* A prompt with the word persona in it, and one without.
Prompts == {"persona", "generate"}

\* LocalProvider._stub_response
stub_response(prompt) == IF prompt = "persona" THEN <<"stub">> ELSE <<"prose">>

\* LocalProvider._ollama_generate / _openai_compatible_generate: the text
\* of the answer, the stub on ConnectError, "Error: ..." on anything else.
local_generate(prompt, outcome) ==
    CASE outcome.kind = "ConnectError" -> stub_response(prompt)
      [] outcome.kind = "HTTPStatusError" -> <<"prose">>
      [] OTHER -> outcome.text

\* LocalProvider.generate_json
local_generate_json(prompt, outcome) ==
    [raised |-> None, ret |-> parse_json_response(local_generate(prompt, outcome))]

\* OpenAIProvider._stub_json_response
stub_json_response(prompt) ==
    IF prompt = "persona" THEN [display_name |-> "Stub Persona"]
    ELSE IF prompt = "generate" THEN [drafts |-> <<[text |-> "Stub draft"]>>]
    ELSE [status |-> "stub"]

\* OpenAIProvider.generate_json: the stub without a client; with one, what
\* chat.completions.create raises goes to the caller, and so does what
\* json.loads raises on the content, "{}" when there is none.
openai_generate_json(has_client, prompt, outcome) ==
    IF ~has_client
    THEN [raised |-> None, ret |-> stub_json_response(prompt)]
    ELSE IF outcome.kind = "ConnectError"
    THEN [raised |-> "APIConnectionError", ret |-> NotADict("NoneType")]
    ELSE IF outcome.kind = "HTTPStatusError"
    THEN [raised |-> "APIStatusError", ret |-> NotADict("NoneType")]
    ELSE LET content == IF outcome.text = <<>> THEN <<"{}">> ELSE outcome.text
             loaded == json_loads(content)
         IN IF loaded.ok
            THEN [raised |-> None, ret |-> loaded.value]
            ELSE [raised |-> "JSONDecodeError", ret |-> NotADict("NoneType")]

LocalGenerateJson ==
    /\ last.op = "none"
    /\ \E prompt \in Prompts, outcome \in BackendOutcomes :
         LET r == local_generate_json(prompt, outcome)
         IN last' = [op |-> "generate_json", provider |-> "local", prompt |-> prompt,
                     outcome |-> outcome, raised |-> r.raised, ret |-> r.ret]

OpenAIGenerateJson ==
    /\ last.op = "none"
    /\ \E has_client \in BOOLEAN, prompt \in Prompts, outcome \in BackendOutcomes :
         LET r == openai_generate_json(has_client, prompt, outcome)
         IN last' = [op |-> "generate_json", provider |-> "openai", prompt |-> prompt,
                     outcome |-> outcome, raised |-> r.raised, ret |-> r.ret]

NextProvider ==
    \/ LocalGenerateJson
          /\ UNCHANGED <<tweets, persona_versions, returned, generations, reviews,
                         llm_calls, file, pending, invocations, connections, state, prev>>
    \/ OpenAIGenerateJson
          /\ UNCHANGED <<tweets, persona_versions, returned, generations, reviews,
                         llm_calls, file, pending, invocations, connections, state, prev>>

\* One call of generate_json, of either provider.
SpecProvider == InitImport /\ [][NextProvider]_vars

\* The result is a JSON object.
ReturnsObject == last.raised = None /\ IsDict(last.ret)

\* C24 as stated: whichever provider is asked and whatever its backend does
\* (a JSON object, JSON inside prose or code fences, text that is not JSON,
\* a JSON value that is not an object, a failed connection), generate_json
\* returns an object, the recovered one or an error-tagged one, and raises
\* nothing.
C24_GenerateJsonReturnsObject ==
    last.op = "generate_json" => ReturnsObject

\* The local provider raises nothing, and what it returns is an object
\* unless the whole response, or what stands inside its json fence, is a
\* JSON value that is not an object; the cloud provider returns an object
\* when its content is one JSON object or empty, or when it has no client.
C24_LocalNeverRaisesCloudParsesWholeContent ==
    last.op = "generate_json" =>
        /\ last.provider = "local" =>
              /\ last.raised = None
              /\ IsDict(last.ret) \/ (/\ last.outcome.kind = "content"
                                       /\ "arr" \in Range(last.outcome.text)
                                       /\ last.ret = SegmentValue("arr"))
        /\ (last.provider = "openai" /\ last.outcome.kind = "content"
              /\ last.outcome.text \in {<<>>, <<"obj">>}) => ReturnsObject

----------------------------------------------------------------------------
\* importer/extension.py: _normalize_tweet on objects that hold any few of
\* the field names it looks up.

MaxPopulated == 2   \* field names of one kind an export object holds

\* The functions from at most n of the keys to the values.
ObjsOver(keys, values, n) ==
    UNION {[populated -> values] :
              populated \in {chosen \in SUBSET keys : Cardinality(chosen) <= n}}

IdAliases == <<"tweet_id", "id", "id_str", "tweetId">>
TimestampAliases == <<"created_at", "createdAt", "timestamp", "date">>
TextAliases == <<"text", "full_text", "content">>
UrlAliases == <<"url", "tweet_url", "link", "permalink">>

\* Objects over the aliases: JSON null, the empty string, two strings (one
\* that strip shortens), blanks and, for an identifier, a number.
AliasObjs ==
    {obj \in ObjsOver(Range(IdAliases) \cup Range(TimestampAliases)
                          \cup Range(TextAliases) \cup Range(UrlAliases),
                      {None, "", "alpha", "beta ", "  ", "#7"}, MaxPopulated) :
        \A key \in DOMAIN obj : obj[key] = "#7" => key \in Range(IdAliases)}

\* JSON null where an object is expected.
NoMetrics == [none |-> TRUE]

\* Python's truth of a dict or None.
TruthyObject(v) == v # NoMetrics /\ v # <<>>

GetObject(obj, key) == IF key \in DOMAIN obj THEN obj[key] ELSE NoMetrics

\* The metric names and the keys looked up for each, in order.
MetricAliases ==
    [like |-> <<"like", "likes", "like_count", "favorite_count">>,
     retweet |-> <<"retweet", "retweets", "retweet_count">>,
     reply |-> <<"reply", "replies", "reply_count">>,
     view |-> <<"view", "views", "impression_count", "impressions">>,
     quote |-> <<"quote", "quotes", "quote_count">>]

\* Objects over metrics, public_metrics and some of the metric keys: null,
\* the empty object or an object of counts under the first two, a count
\* under the others.
MetricObjs ==
    {objects @@ counts :
        objects \in ObjsOver({"metrics", "public_metrics"},
                             {NoMetrics, <<>>, [like |-> 5], [retweet_count |-> 9]},
                             MaxPopulated),
        counts \in ObjsOver({"likes", "like_count", "retweets", "reply", "views", "quotes"},
                            {0, 3}, MaxPopulated)}

\* for key in [...]: if key in obj: metrics[name] = obj[key]; break
FirstPresent(obj, keys) ==
    CHOOSE i \in 1..Len(keys) :
        keys[i] \in DOMAIN obj /\ \A j \in 1..(i - 1) : keys[j] \notin DOMAIN obj

individual_metrics(obj) ==
    [name \in {m \in DOMAIN MetricAliases :
                  \E i \in 1..Len(MetricAliases[m]) : MetricAliases[m][i] \in DOMAIN obj}
        |-> obj[MetricAliases[name][FirstPresent(obj, MetricAliases[name])]]]

\* _normalize_tweet: the metrics.
normalize_metrics(obj) ==
    LET metrics == GetObject(obj, "metrics")
    IN IF ~TruthyObject(metrics) /\ "public_metrics" \in DOMAIN obj
       THEN obj["public_metrics"]
       ELSE IF ~TruthyObject(metrics)
       THEN IF individual_metrics(obj) = <<>> THEN NoMetrics ELSE individual_metrics(obj)
       ELSE metrics

\* _normalize_tweet: the dict it returns.
NormalizedTweet(obj) ==
    normalize_tweet(obj) @@
    [source |-> GetOr(obj, "source", "extension_network"),
     lang |-> Or(Get(obj, "lang"), Get(obj, "language")),
     metrics |-> normalize_metrics(obj),
     is_reply |-> Or(Get(obj, "is_reply"), Get(obj, "isReply")),
     is_quote |-> Or(Get(obj, "is_quote"), Get(obj, "isQuote")),
     conversation_id |-> Or(Get(obj, "conversation_id"), Get(obj, "conversationId"))]

\* SpecNormalize: a file of one object, normalized once.
InitNormalize ==
    /\ InitStore
    /\ file \in {<<obj>> : obj \in AliasObjs \cup MetricObjs}

NormalizeTweet ==
    /\ last.op = "none"
    /\ last' = [op |-> "normalize_tweet", arg |-> file[1], ret |-> NormalizedTweet(file[1])]
    /\ UNCHANGED <<tweets, persona_versions, returned, generations, reviews,
                   llm_calls, file, pending, invocations, connections, state, prev>>

NextNormalize == NormalizeTweet

SpecNormalize == InitNormalize /\ [][NextNormalize]_vars

\* The value of the first alias, in order, that is not empty; None when
\* every alias is empty or missing.
FirstNonEmpty(obj, aliases) ==
    LET found == {i \in 1..Len(aliases) : Truthy(Get(obj, aliases[i]))}
    IN IF found = {} THEN None
       ELSE Get(obj, aliases[CHOOSE i \in found : \A j \in found : i <= j])

\* The object with text in the place of full_text and tweet_id in the place
\* of id_str.
Renamed(obj) == [text |-> obj["full_text"], tweet_id |-> obj["id_str"]]

\* C25: for the identifier, the timestamp, the body and the url the first
\* alias in the fixed order that is not empty wins (the identifier as a
\* string, the body stripped), a field none of whose aliases is populated is
\* empty, and an object that holds only full_text and id_str normalizes to
\* the record of the object with the same values under text and tweet_id.
C25_FirstNonEmptyAliasWins ==
    last.op = "normalize_tweet" =>
        LET obj == last.arg
            Won(aliases) == FirstNonEmpty(obj, aliases)
        IN /\ Won(IdAliases) # None => last.ret.tweet_id = PyStr(Won(IdAliases))
           /\ Won(IdAliases) = None => last.ret.tweet_id = None
           /\ Won(TimestampAliases) # None => last.ret.created_at = Won(TimestampAliases)
           /\ Won(TimestampAliases) = None => ~Truthy(last.ret.created_at)
           /\ Won(TextAliases) # None => last.ret.text = Strip(Won(TextAliases))
           /\ Won(TextAliases) = None => last.ret.text = None
           /\ Won(UrlAliases) # None => last.ret.url = Won(UrlAliases)
           /\ Won(UrlAliases) = None => ~Truthy(last.ret.url)
           /\ DOMAIN obj = {"full_text", "id_str"} => last.ret = NormalizedTweet(Renamed(obj))

\* An object with only full_text and id_str populated has been normalized,
\* to a record with an identifier and a body.
C25_Witness ==
    /\ last.op = "normalize_tweet"
    /\ DOMAIN last.arg = {"full_text", "id_str"}
    /\ last.arg["id_str"] = "#7"
    /\ last.ret.tweet_id = "7"
    /\ last.ret.text = "beta"

\* C26 as stated: the metrics of the normalized record are the explicit
\* metrics object when it is not empty, else the public_metrics object when
\* it is not empty, else the object assembled from the metric aliases that
\* are present, and None, never an empty object, when none of these yields
\* a metric, also when public_metrics is present and empty.
C26_MetricsResolution ==
    last.op = "normalize_tweet" =>
        LET explicit == GetObject(last.arg, "metrics")
            public == GetObject(last.arg, "public_metrics")
            assembled == individual_metrics(last.arg)
        IN /\ last.ret.metrics # <<>>
           /\ last.ret.metrics =
                 IF TruthyObject(explicit) THEN explicit
                 ELSE IF TruthyObject(public) THEN public
                 ELSE IF assembled # <<>> THEN assembled
                 ELSE NoMetrics

\* What the code resolves: the explicit object when it is not empty; else,
\* when the key public_metrics is present, its value whatever it is; else
\* the assembled object, or None when nothing was assembled.
C26_PresentPublicMetricsIsTaken ==
    last.op = "normalize_tweet" =>
        LET explicit == GetObject(last.arg, "metrics")
            assembled == individual_metrics(last.arg)
        IN last.ret.metrics =
             IF TruthyObject(explicit) THEN explicit
             ELSE IF "public_metrics" \in DOMAIN last.arg THEN last.arg["public_metrics"]
             ELSE IF assembled # <<>> THEN assembled
             ELSE NoMetrics

----------------------------------------------------------------------------
\* The closed category sets.
EngagementTypes == {"reply", "like", "repost", "mixed"}
RiskLevels == {"low", "medium", "high"}

\* field of parsed is value when value is in the set, fallback when not.
KeptOrElse(parsed, value, allowed, fallback) ==
    /\ value \in allowed => parsed = value
    /\ value \notin allowed => parsed = fallback

\* generate_tweets got a dict whose drafts are dicts.
TweetItemsParsed ==
    /\ last.op = "generate_tweets"
    /\ ProviderAnswered
    /\ ~StructurallyInvalid(last.result, "drafts")

\* C27: category parsing rejects no item.  generate_tweets yields one Draft
\* for each item, with expected_engagement and suppression_risk kept when
\* they are in their sets and None when they are not; a review yields, for
\* each response parsed, repetition_risk kept when it is in {low, medium,
\* high} and low when it is missing or outside, conversation_value kept
\* when in the set and medium when missing or outside.
C27_CategoriesKeptOrDefaulted ==
    /\ TweetItemsParsed =>
          /\ Len(last.ret) = Len(last.result["drafts"])
          /\ \A i \in 1..Len(last.ret) :
                /\ KeptOrElse(last.ret[i].expected_engagement,
                              Get(last.result["drafts"][i], "expected_engagement"),
                              EngagementTypes, None)
                /\ KeptOrElse(last.ret[i].suppression_risk,
                              Get(last.result["drafts"][i], "suppression_risk"),
                              RiskLevels, None)
    /\ last.op \in {"review_drafts", "review_single_draft"} =>
          /\ \A i \in 1..Len(last.outcomes) :
                (\A j \in 1..i : ~last.outcomes[j].raises /\ IsDict(last.outcomes[j].result)
                                    /\ ~ErrorTagged(last.outcomes[j].result))
                    => Len(last.ret) >= i
          /\ \A i \in 1..Len(last.ret) :
                /\ KeptOrElse(last.ret[i].repetition_risk,
                              Get(last.outcomes[i].result, "repetition_risk"),
                              RiskLevels, "low")
                /\ KeptOrElse(last.ret[i].conversation_value,
                              Get(last.outcomes[i].result, "conversation_value"),
                              RiskLevels, "medium")

\* A review was made of a response whose two categories are outside the
\* set, and it holds low and medium.
C27_Witness ==
    /\ last.op \in {"review_drafts", "review_single_draft"}
    /\ \E i \in 1..Len(last.ret) :
          /\ Get(last.outcomes[i].result, "repetition_risk") = "extreme"
          /\ Get(last.outcomes[i].result, "conversation_value") = "huge"
          /\ last.ret[i].repetition_risk = "low"
          /\ last.ret[i].conversation_value = "medium"

----------------------------------------------------------------------------
\* The identifier, the timestamp and the body of the row are not empty.
NonEmptyRow(row) ==
    Truthy(row.tweet_id) /\ Truthy(row.created_at) /\ Truthy(row.text)

\* C28 as stated: in every reachable state every row of the tweets table
\* has a non-empty identifier, timestamp and body, whether
\* import_extension_tweet or import_extension_tweets_batch inserted it.
C28_StoredRecordsAreNonEmpty == \A row \in tweets : NonEmptyRow(row)

\* The rows a batch inserts are not empty: the validation of
\* import_extension_tweets_batch is the only one the store has.
C28_BatchInsertsNonEmptyRecords ==
    [][last'.op = "import_extension_tweets_batch"
          => \A row \in tweets' \ tweets : NonEmptyRow(row)]_vars

----------------------------------------------------------------------------
\* SpecTransaction: the transactions of two connections on one database
\* file.  Connection 1 is the connection of the API's AppState, opened once
\* and used by every request until shutdown; connection 2 is the connection
\* a CLI command opens, uses for one import and closes.  pending[c] holds the
\* rows connection c has inserted and not committed; tweets holds the
\* committed rows.  prev keeps the latest batch that raised.

Shared == 1
OwnConnection == 2

MaxSaved == 1    \* personas saved on the shared connection

\* The dicts of the batches: two records that pass, and a record whose
\* timestamp is a JSON object, which passes the validation (it is truthy)
\* and cannot be bound to the TEXT column.
TransactionTweets ==
    { [tweet_id |-> "1", created_at |-> T1, text |-> "alpha", url |-> None],
      [tweet_id |-> "2", created_at |-> T2, text |-> "gamma", url |-> None],
      [tweet_id |-> "2", created_at |-> "<dict>", text |-> "gamma", url |-> None] }

TransactionBatches == SeqsUpTo(TransactionTweets, MaxBatchLen)

\* What last keeps of a batch: the connection, whether it raised, the counts
\* returned and the rows its INSERTs wrote.
BatchCall(c, r, inserted) ==
    [op |-> "import_extension_tweets_batch", connection |-> c,
     raised |-> r.raised, ret |-> Counts(r), inserted |-> inserted]

\* POST /import/extension: import_extension_tweets_batch on the shared
\* connection.  The loop reads and writes the connection's view; an
\* exception leaves the loop before conn.commit(), the handler turns it into
\* HTTP 400 and the connection stays open with the rows inserted so far.
SharedImportBatch(batch) ==
    LET r == import_extension_tweets_batch(View(Shared), batch)
        call == BatchCall(Shared, r, r.rows \ View(Shared))
    IN /\ IF r.raised
          THEN /\ tweets' = tweets
               /\ pending' = [pending EXCEPT ![Shared] = r.rows \ tweets]
               /\ prev' = call
          ELSE /\ tweets' = r.rows
               /\ pending' = [pending EXCEPT ![Shared] = {}]
               /\ prev' = prev
       /\ last' = call
       /\ UNCHANGED <<persona_versions, returned, generations, reviews, llm_calls,
                      file, invocations, connections, state>>

\* Repository.import_extension_tweet on the shared connection: it returns
\* before any statement that writes when the identifier exists, and commits
\* after its INSERT.
SharedImportTweet ==
    \E t \in SingleTweets :
        LET r == import_extension_tweet(View(Shared), t)
        IN /\ IF r.ret
              THEN /\ tweets' = r.rows
                   /\ pending' = [pending EXCEPT ![Shared] = {}]
              ELSE UNCHANGED <<tweets, pending>>
           /\ last' = [op |-> "import_extension_tweet", connection |-> Shared,
                       raised |-> r.raised, ret |-> r.ret]
           /\ UNCHANGED <<persona_versions, returned, generations, reviews, llm_calls,
                          file, invocations, connections, state, prev>>

\* Repository.save_persona on the shared connection (POST /profile saves the
\* persona it built): its conn.commit() commits the open transaction.
SharedSavePersona ==
    /\ Len(persona_versions) < MaxSaved
    /\ \E persona \in Personas :
         LET saved == save_persona(persona_versions, persona)
         IN /\ persona_versions' = saved.rows
            /\ returned' = Append(returned, saved.ret)
            /\ last' = [op |-> "save_persona", connection |-> Shared,
                        raised |-> FALSE, ret |-> saved.ret]
    /\ tweets' = View(Shared)
    /\ pending' = [pending EXCEPT ![Shared] = {}]
    /\ UNCHANGED <<generations, reviews, llm_calls, file, invocations,
                   connections, state, prev>>

\* Database.close on the shared connection (the lifespan's state.close()):
\* closing discards the open transaction.
SharedClose ==
    /\ pending[Shared] # {}
    /\ pending' = [pending EXCEPT ![Shared] = {}]
    /\ last' = [op |-> "close", connection |-> Shared, raised |-> FALSE]
    /\ UNCHANGED <<tweets, persona_versions, returned, generations, reviews,
                   llm_calls, file, invocations, connections, state, prev>>

\* `tweetdna import extension`: connect, import_extension_tweets_batch,
\* close in the finally clause.  The SELECTs read the committed rows; the
\* first INSERT needs the write lock, which the shared connection holds
\* while its transaction is open, and fails when the busy timeout ends.
CliImportBatch(batch) ==
    LET r == import_extension_tweets_batch(tweets, batch)
        locked == pending[Shared] # {} /\ (r.raised \/ r.imported > 0)
        raised == r.raised \/ locked
        call == BatchCall(OwnConnection, [r EXCEPT !.raised = raised],
                          IF locked THEN {} ELSE r.rows \ tweets)
    IN /\ tweets' = IF raised THEN tweets ELSE r.rows
       /\ last' = call
       /\ prev' = IF raised THEN call ELSE prev
       /\ UNCHANGED <<persona_versions, returned, generations, reviews, llm_calls,
                      file, pending, invocations, connections, state>>

NextTransaction ==
    \/ \E batch \in TransactionBatches : SharedImportBatch(batch)
    \/ SharedImportTweet
    \/ SharedSavePersona
    \/ SharedClose
    \/ \E batch \in TransactionBatches : CliImportBatch(batch)

SpecTransaction == InitImport /\ [][NextTransaction]_vars

\* C29 as stated: a batch that raises leaves none of its records in the
\* store, neither committed nor in the view of the connection that ran it,
\* and no row of an unfinished transaction becomes durable through a later
\* operation that commits on the same connection.
C29_AbortedBatchLeavesNothing ==
    [][/\ (last'.op = "import_extension_tweets_batch" /\ last'.raised)
            => (tweets' = tweets /\ pending' = pending)
       /\ (tweets' \ tweets) \cap pending[Shared] = {}]_vars

\* What holds: no batch that raises commits anything by itself, and a batch
\* that raises on a connection of its own (closed when the command ends)
\* leaves every table and every transaction as it found them.
C29_AbortedBatchCommitsNothingItself ==
    [][(last'.op = "import_extension_tweets_batch" /\ last'.raised)
          => /\ tweets' = tweets
             /\ last'.connection = OwnConnection => pending' = pending]_vars

\* A row of a batch that raised on the shared connection is committed by a
\* later save_persona.
C29_AbortedRowBecomesDurable ==
    /\ last.op = "save_persona"
    /\ prev.op = "import_extension_tweets_batch"
    /\ prev.connection = Shared
    /\ prev.inserted # {}
    /\ prev.inserted \subseteq tweets

----------------------------------------------------------------------------
\* The Draft fields that have a column of their own in the generations
\* table (text is kept in text_json).
PersistedFields ==
    {"kind", "topic", "spice", "persona_version", "tags", "rationale", "confidence"}

Persisted(draft) == [f \in PersistedFields |-> draft[f]]

\* A scalar text, or a sequence of two or more texts.
ScalarOrSeveral(text) == ~IsList(text) \/ Len(text.list) >= 2

\* The draft read back has the saved values in the persisted fields, and
\* the saved text when that is a scalar or a sequence of two or more.
ReadsBackPersisted(saved, read) ==
    /\ read # NoDraft
    /\ read.id = saved.id
    /\ Persisted(read) = Persisted(saved)
    /\ ScalarOrSeveral(saved.text) => read.text = saved.text

ReadBackBothWays(saved) ==
    /\ ReadsBackPersisted(saved, get_generation_by_id(generations, saved.id))
    /\ \A recent \in get_recent_generations(generations, MaxDrafts) :
          \E i \in 1..Len(recent) : ReadsBackPersisted(saved, recent[i])

\* C30 as stated: a Draft that save_generation stored is read back by
\* get_generation_by_id and by get_recent_generations with the same kind,
\* topic, intensity, profile version, tags, rationale and confidence, for
\* every confidence including 0, a scalar text as the same scalar and a
\* sequence of two or more texts as the same sequence.
C30_PersistedFieldsReadBack == IsSaveCall => ReadBackBothWays(last.arg)

\* What holds: the same for every Draft whose confidence is not 0.
C30_PersistedFieldsReadBackUnlessZero ==
    (IsSaveCall /\ last.arg.confidence # 0) => ReadBackBothWays(last.arg)

\* A draft of confidence 0 was saved and is read back with the default.
C30_ZeroConfidenceReadAsDefault ==
    /\ IsSaveCall
    /\ last.arg.confidence = 0
    /\ get_generation_by_id(generations, last.ret).confidence = DefaultConfidence

====
